---- MODULE Spec2Model ----
(***************************************************************************)
(* A model of reagle/reddit-research: the watch path (reddit_watch.py:     *)
(* init_watch_pushshift, prefetch_reddit_posts, update_watch and the CSV   *)
(* file the cycles read and write) and the one-shot query path            *)
(* (reddit_query.py: prefetch_reddit_posts with its shelf, get_reddit_info *)
(* and construct_df).                                                      *)
(*                                                                         *)
(* Spec chooses the program in Init.  reddit_watch is the life of one watch *)
(* target: one --init run, then watch runs, one per process start, each    *)
(* with its own NOW.  reddit_query is a sequence of query runs sharing one *)
(* shelf file.  The other programs are one call each of the paginator     *)
(* (collect_pushshift_results), of the legacy sampler (reddit-query.py:    *)
(* ordered_firsts_sample) and of web_utils.get_JSON, the files of          *)
(* reddit_watch.main (the registry, the watch files and their archives),   *)
(* and the runs of reddit_message.py sharing one archive of past users.    *)
(***************************************************************************)
EXTENDS Integers, Sequences, FiniteSets, TLC

(***************************************************************************)
(* Bounds.                                                                 *)
(***************************************************************************)
\* NOW of the last process run that is modelled, for a target of one
\* identifier; the --init run has NOW = 1.
MaxTime == 3
\* The same for a target of several identifiers.
MaxTimeN == 2
\* Largest number of records in one batch of index-source results.
MaxBatch == 2

(***************************************************************************)
(* Python and pandas values.                                               *)
(***************************************************************************)
\* Python's None, as the value of a live field.
None == "<None>"
\* The empty timestamp cell: written "NA" (na_rep), read back as NaN.
NA == 0

\* A cell of a DataFrame column that pandas holds as a bool.
PyBool(b) == [dtype |-> "bool", s |-> IF b THEN "True" ELSE "False"]
\* A cell that pandas holds as a Python str.
PyStr(s) == [dtype |-> "str", s |-> s]

\* The words read_csv takes for booleans (its default true_values/false_values).
TrueWords == {"True", "TRUE", "true"}
FalseWords == {"False", "FALSE", "false"}

\* pd.isna of a timestamp cell.
isna(x) == x = NA

\* The words read_csv takes for a missing value in any column (its default
\* na_values), of which a user or a subreddit can be named "null", "nan",
\* "NaN" or "NULL".
NaWords == {"", "NA", "NaN", "NULL", "nan", "null"}
\* The missing value of a column of strings, written "NA" (na_rep).
NaN == "<NaN>"

(***************************************************************************)
(* The live source (Reddit).                                               *)
(***************************************************************************)
LiveAuthors == {None, "[deleted]", "u1"}
LiveSelftexts == {"[deleted]", "[removed]", "text"}
LiveTitles == {"[deleted by user]", "title"}
LiveCategories == {None, "spam", "deleted"}

\* Every live snapshot of a submission, by the fields the code reads.
AllSnapshots ==
    [author : LiveAuthors, selftext : LiveSelftexts, title : LiveTitles,
     removed_by_category : LiveCategories]

\* A submission that is present: author and text there, not removed.
Present ==
    [author |-> "u1", selftext |-> "text", title |-> "title",
     removed_by_category |-> None]

\* The snapshots drawn for identifier "B": present, or removed as spam.
PeerSnapshots ==
    {Present,
     [Present EXCEPT !.selftext = "[removed]", !.removed_by_category = "spam"]}

\* The live source is exhaustive on identifier "A" and coarse on the others:
\* "B" is present or removed, "C" is present.
Snapshots(id) ==
    IF id = "A" THEN AllSnapshots ELSE IF id = "B" THEN PeerSnapshots ELSE {Present}

\* The watch lists an --init run can find in the index source.
WatchLists == {<<"A">>, <<"A", "B", "C">>}

\* The authors the index source can give for the submissions of a list: the
\* author of "B" may be the user named null.
IndexAuthors(ids) ==
    {authors \in [1..Len(ids) -> {"u1", "null"}] :
        \A n \in 1..Len(ids) : authors[n] = "null" => ids[n] = "B"}

\* The sets of identifiers REDDIT.info can answer when asked for `ids`: it
\* may leave out "A" and "B".
Answered(ids) == {got \in SUBSET ids : ids \ got \subseteq {"A", "B"}}

\* The snapshots REDDIT.info can return for `id` when it is among the returned
\* identifiers `got` (a single placeholder otherwise, which is never stored).
Returned(id, got) == IF id \in got THEN Snapshots(id) ELSE {Present}

\* The submission object of identifier `id` whose live fields are `snap`.
Submission(id, snap) ==
    [id |-> id, author |-> snap.author, selftext |-> snap.selftext,
     title |-> snap.title, removed_by_category |-> snap.removed_by_category]

\* The dict built from what REDDIT.info returned: submission.id -> submission.
Dict(got, a, b, c) ==
    [i \in got |-> Submission(i, IF i = "A" THEN a ELSE IF i = "B" THEN b ELSE c)]

VARIABLES
    program,      \* the script, or the part of one, the behaviour follows
    pc,           \* where the run of the script is
    now,          \* reddit_watch: NOW of the current process run (line 31)
    latest,       \* reddit_watch: the rows of the target's latest CSV file
    updated,      \* reddit_watch: the rows of the updated- file update_watch wrote
    submissions,  \* reddit_watch: the dict prefetch_reddit_posts returned
    shelf,        \* reddit_query: the shelf file, submission.id -> submission
    args,         \* reddit_query: the options of the run
    pushshift_results, \* reddit_query: the batch construct_df is given
    t3_ids,       \* reddit_query: the fullnames passed to REDDIT.info
    info,         \* reddit_query: the submissions REDDIT.info returned
    posts_df,     \* reddit_query: the rows construct_df built
    printed,      \* reddit_query: the warnings printed
    network,      \* the sleeps and the requests of the current call, in order
    sample,       \* collect_pushshift_results: args.sample
    limit,        \* collect_pushshift_results: the row limit
    offsets,      \* collect_pushshift_results: what rs.get_offsets returned
    results,      \* collect_pushshift_results: the page of the last query
    results_found, \* collect_pushshift_results: the entries accumulated
    queries,      \* collect_pushshift_results: the calls of query_pushshift
    items,        \* reddit-query.py: the list ordered_firsts_sample is given
    sampled_index, \* reddit-query.py: the indexes ordered_firsts_sample drew
    sampled_items, \* reddit-query.py: the list ordered_firsts_sample returned
    url,          \* get_JSON: the url of the call
    cache,        \* get_JSON: the urls cachier holds a result for
    files,        \* the files of DATA_DIR, name -> content
    init,         \* reddit_watch main: args.init, the subreddits to initialize
    config,       \* reddit_watch main: the ConfigParser in memory
    todo,         \* reddit_watch main: what is left of the loop of the run
    watched_fn,   \* reddit_watch main: the file of the target in hand
    updated_fn,   \* reddit_watch main: the file update_watch returned
    archive_fn,   \* reddit_message: the file args.archive_fn names
    dry_run,      \* reddit_message: args.dry_run
    users,        \* reddit_message: the users select_users returned
    users_past,   \* reddit_message: UsersArchive.users_past
    users_todo,   \* reddit_message: the users the loop has not come to yet
    messages      \* reddit_message: the calls of Redditor.message, in order

watch_vars == <<now, latest, updated, submissions>>
query_vars == <<shelf, args, pushshift_results, t3_ids, info, posts_df, printed>>
page_vars == <<sample, limit, offsets, results, results_found, queries>>
legacy_vars == <<items, sampled_index, sampled_items>>
fetch_vars == <<url, cache>>
file_vars == <<files, init, config, todo, watched_fn, updated_fn>>
message_vars == <<archive_fn, dry_run, users, users_past, users_todo, messages>>
other_vars == <<page_vars, legacy_vars, fetch_vars, file_vars, message_vars>>
vars == <<program, pc, watch_vars, query_vars, network, other_vars>>

(***************************************************************************)
(* The CSV file of a watch target.  A file row holds the cells as text     *)
(* (flags and category) and as instants (timestamps, NA when empty).       *)
(***************************************************************************)
FlagColumns == {"del_author_p", "del_author_r", "del_text_r", "rem_text_r"}
TextColumns == FlagColumns \cup {"removed_by_category_r"}
\* The columns of names.
NameColumns == {"id", "subreddit", "author_p"}

\* The set {1, ..., Len(t)} of row indexes of a table.
Index(t) == 1..Len(t)

\* read_csv's type inference on one text column: the column is bool when
\* every cell is a boolean word, and str otherwise.
is_bool_column(file, col) ==
    \A j \in Index(file) : file[j][col] \in TrueWords \cup FalseWords

\* One cell of a text column, by the type inferred for its column.
read_cell(cell, is_bool) ==
    IF is_bool THEN PyBool(cell \in TrueWords) ELSE PyStr(cell)

\* One cell of a column of names: a missing value when it is one of the
\* words for it.
read_name(cell) == IF cell \in NaWords THEN NaN ELSE cell

\* pd.read_csv(watched_fn, index_col=0): the DataFrame of a file.
read_csv(file) ==
    LET is_bool == [col \in TextColumns |-> is_bool_column(file, col)]
    IN  [i \in Index(file) |->
            [col \in DOMAIN file[i] |->
                IF col \in TextColumns
                THEN read_cell(file[i][col], is_bool[col])
                ELSE IF col \in NameColumns
                THEN read_name(file[i][col])
                ELSE file[i][col]]]

\* DataFrame.to_csv(fn, na_rep="NA"): a bool is written True/False, a str as
\* it is, a missing name as "NA".
to_csv(df) ==
    [i \in Index(df) |->
        [col \in DOMAIN df[i] |->
            IF col \in TextColumns THEN df[i][col].s
            ELSE IF col \in NameColumns /\ df[i][col] = NaN THEN "NA"
            ELSE df[i][col]]]

\* The row init_watch_pushshift writes for one submission of the index source.
init_row(id, author, NOW_STR) ==
    [id |-> id,
     subreddit |-> "r",
     author_p |-> author,
     del_author_p |-> "FALSE",
     created_utc |-> NOW_STR,
     found_utc |-> NOW_STR,
     checked_utc |-> NOW_STR,
     del_author_r |-> "FALSE",
     del_author_r_utc |-> NA,
     del_text_r |-> "FALSE",
     del_text_r_utc |-> NA,
     rem_text_r |-> "FALSE",
     rem_text_r_utc |-> NA,
     removed_by_category_r |-> "FALSE"]

\* init_watch_pushshift: the file created for the submissions found.
init_watch_pushshift(ids, authors, NOW_STR) ==
    [i \in 1..Len(ids) |-> init_row(ids[i], authors[i], NOW_STR)]

(***************************************************************************)
(* update_watch, one row: `row` is the row of watched_df (what the guards  *)
(* read), the result is the row of updated_df.                             *)
(***************************************************************************)
\* A variant of update_author that keeps the flag in step with the live
\* author: it clears the flag when the author is there again.
update_author_resync(row, upd, sub, NOW_STR) ==
    IF sub.author = "[deleted]" \/ sub.author = None
    THEN IF isna(row.del_author_r_utc)
         THEN [upd EXCEPT !.del_author_r = PyBool(TRUE), !.del_author_r_utc = NOW_STR]
         ELSE upd
    ELSE [upd EXCEPT !.del_author_r = PyBool(FALSE)]

\* A variant of update_author that tests the sentinel only, not None.
update_author_no_none(row, upd, sub, NOW_STR) ==
    IF isna(row.del_author_r_utc) /\ sub.author = "[deleted]"
    THEN [upd EXCEPT !.del_author_r = PyBool(TRUE), !.del_author_r_utc = NOW_STR]
    ELSE upd

\* Lines 162-166: the author pair.
update_author(row, upd, sub, NOW_STR) ==
    IF isna(row.del_author_r_utc) /\ (sub.author = "[deleted]" \/ sub.author = None)
    THEN [upd EXCEPT !.del_author_r = PyBool(TRUE), !.del_author_r_utc = NOW_STR]
    ELSE upd

\* A variant of update_deleted that sets the flag and leaves the timestamp.
update_deleted_flag_only(row, upd, sub, NOW_STR) ==
    IF isna(row.del_text_r_utc)
       /\ (sub.selftext = "[deleted]" \/ sub.title = "[deleted by user]")
    THEN [upd EXCEPT !.del_text_r = PyBool(TRUE)]
    ELSE upd

\* Lines 167-171: the text-deleted pair.
update_deleted(row, upd, sub, NOW_STR) ==
    IF isna(row.del_text_r_utc)
       /\ (sub.selftext = "[deleted]" \/ sub.title = "[deleted by user]")
    THEN [upd EXCEPT !.del_text_r = PyBool(TRUE), !.del_text_r_utc = NOW_STR]
    ELSE upd

\* Lines 173-175: the live category, None replaced by the str "False".
category_of(sub) ==
    IF sub.removed_by_category = None THEN "False" ELSE sub.removed_by_category

\* A variant of update_removed_first without the guard on the timestamp.
update_removed_always(row, upd, category_new, NOW_STR) ==
    [upd EXCEPT !.rem_text_r = PyBool(TRUE),
                !.rem_text_r_utc = NOW_STR,
                !.removed_by_category_r = PyStr(category_new)]

\* Lines 178-182: the text-removed pair and the category, first removal only.
update_removed_first(row, upd, category_new, NOW_STR) ==
    IF isna(row.rem_text_r_utc)
    THEN [upd EXCEPT !.rem_text_r = PyBool(TRUE),
                     !.rem_text_r_utc = NOW_STR,
                     !.removed_by_category_r = PyStr(category_new)]
    ELSE upd

\* A variant of update_removed_deleted that ignores the category "deleted".
update_removed_not_deleted(upd, category_new, NOW_STR) == upd

\* Lines 183-187: a category that changed to "deleted".
update_removed_deleted(upd, category_new, NOW_STR) ==
    IF category_new = "deleted"
    THEN [upd EXCEPT !.del_text_r = PyBool(TRUE),
                     !.del_text_r_utc = NOW_STR,
                     !.removed_by_category_r = PyStr(category_new)]
    ELSE upd

\* Lines 172-187: the removal branch.  category_new is a str, so it differs
\* from a category_old that pandas read as the bool False.
update_removed(row, upd, sub, NOW_STR) ==
    IF sub.selftext = "[removed]"
    THEN LET category_new == category_of(sub)
             category_old == row.removed_by_category_r
         IN  IF PyStr(category_new) # category_old
             THEN update_removed_deleted(
                      update_removed_first(row, upd, category_new, NOW_STR),
                      category_new, NOW_STR)
             ELSE upd
    ELSE upd

\* A variant of update_row that stamps checked_utc only while a sticky
\* timestamp of the row is still empty.
update_row_checked_guarded(row, subs, NOW_STR) ==
    IF row.id \notin DOMAIN subs
    THEN row
    ELSE LET sub == subs[row.id]
             checked ==
                 IF \/ isna(row.del_author_r_utc)
                    \/ isna(row.del_text_r_utc)
                    \/ isna(row.rem_text_r_utc)
                 THEN [row EXCEPT !.checked_utc = NOW_STR]
                 ELSE row
         IN  update_removed(row,
                 update_deleted(row,
                     update_author(row, checked, sub, NOW_STR), sub, NOW_STR),
                 sub, NOW_STR)

\* Lines 155-187: one iteration of the loop over watched_df.
update_row(row, subs, NOW_STR) ==
    IF row.id \notin DOMAIN subs
    THEN row
    ELSE LET sub == subs[row.id]
             checked == [row EXCEPT !.checked_utc = NOW_STR]
         IN  update_removed(row,
                 update_deleted(row,
                     update_author(row, checked, sub, NOW_STR), sub, NOW_STR),
                 sub, NOW_STR)

\* A variant of update_watch whose loop stops (break) at the first row whose
\* identifier is not in submissions, instead of going on to the next row.
update_watch_break(file, subs, NOW_STR) ==
    LET watched_df == read_csv(file)
        reached(i) == \A j \in 1..i : watched_df[j].id \in DOMAIN subs
    IN  to_csv([i \in Index(watched_df) |->
                   IF reached(i)
                   THEN update_row(watched_df[i], subs, NOW_STR)
                   ELSE watched_df[i]])

\* update_watch: the content of the updated file, from the content of the
\* watched file and the dict prefetch_reddit_posts returned.
update_watch(file, subs, NOW_STR) ==
    LET watched_df == read_csv(file)
    IN  to_csv([i \in Index(watched_df) |-> update_row(watched_df[i], subs, NOW_STR)])

\* The identifiers of a table, as update_watch collects them (line 152).
watched_ids(file) == {file[i].id : i \in Index(file)}

(***************************************************************************)
(* What a call does on the network, in order: a sleep of the calling       *)
(* thread, or a request sent to one of the two sources.                    *)
(***************************************************************************)
Sleep(seconds) == [op |-> "time.sleep", seconds |-> seconds]

\* ok: the request was answered without a transport or HTTP error.
Request(source, ok) == [op |-> "request", to |-> source, ok |-> ok]

\* REDDIT.info(fullnames=...) of prefetch_reddit_posts: the names are sent to
\* the live source as they are, with no sleep in the function; no name, no
\* request.
info_requests(ids) == IF ids = {} THEN <<>> ELSE <<Request("reddit", TRUE)>>

(***************************************************************************)
(* The runs of reddit_watch.py for one target.  A run is --init (main,     *)
(* lines 297-308) or a watch run (lines 309-313); both call update_watch,  *)
(* which starts with prefetch_reddit_posts, and then rotate the files.     *)
(***************************************************************************)
InitWatch ==
    /\ now = 0
    /\ latest = <<>>
    /\ updated = <<>>
    /\ submissions = <<>>

\* The last NOW modelled for a target of n identifiers.
LastTime(n) == IF n <= 1 THEN MaxTime ELSE MaxTimeN

\* main with --init, up to the call of update_watch: the process starts (a
\* new NOW) and init_watch_pushshift writes the file of the target.
InitRun ==
    /\ program = "reddit_watch"
    /\ pc = "uninitialized"
    /\ pc' = "started"
    /\ now' = now + 1
    /\ \E ids \in WatchLists :
          \E authors \in IndexAuthors(ids) :
             latest' = init_watch_pushshift(ids, authors, now')
    /\ UNCHANGED <<program, network, other_vars, updated, submissions, query_vars>>

\* main without --init, up to the call of update_watch: the process starts.
WatchRun ==
    /\ program = "reddit_watch"
    /\ pc = "idle"
    /\ now < LastTime(Len(latest))
    /\ pc' = "started"
    /\ now' = now + 1
    /\ UNCHANGED <<program, network, other_vars, latest, updated, submissions, query_vars>>

\* update_watch, lines 150-153: the file is read and prefetch_reddit_posts
\* returns the submissions REDDIT.info gave, keyed by identifier.
Prefetch ==
    /\ program = "reddit_watch"
    /\ pc = "started"
    /\ pc' = "fetched"
    /\ \E got \in Answered(watched_ids(latest)) :
         \E a \in Returned("A", got), b \in Returned("B", got), c \in Returned("C", got) :
           submissions' = Dict(got, a, b, c)
    /\ network' = info_requests(watched_ids(latest))
    /\ UNCHANGED <<program, other_vars, now, latest, updated, query_vars>>

\* update_watch, lines 154-191: the loop over the rows and the write of the
\* updated file.
UpdateWatch ==
    /\ program = "reddit_watch"
    /\ pc = "fetched"
    /\ pc' = "updated"
    /\ updated' = update_watch(latest, submissions, now)
    /\ UNCHANGED <<program, network, other_vars, now, latest, submissions, query_vars>>

\* rotate_archive_fns, lines 208-211: the updated file becomes the latest
\* one, and the run ends.
Rotate ==
    /\ program = "reddit_watch"
    /\ pc = "updated"
    /\ pc' = "idle"
    /\ latest' = updated
    /\ updated' = <<>>
    /\ submissions' = <<>>
    /\ network' = <<>>
    /\ UNCHANGED <<program, other_vars, now, query_vars>>

(***************************************************************************)
(* The query path, reddit_query.py.                                        *)
(***************************************************************************)
\* The records of the index source (Pushshift), by the fields the rows of
\* construct_df are computed from.
PushshiftRecords ==
    {[id |-> "A", author |-> "throwaway1"], [id |-> "B", author |-> "bob"]}

\* The batches construct_df can be given: up to MaxBatch records, repeats
\* and all.
Batches == UNION {[1..n -> PushshiftRecords] : n \in 0..MaxBatch}

\* The options --skip and --throwaway-only.
Args == [skip : BOOLEAN, throwaway_only : BOOLEAN]

\* is_throwaway (lines 50-54), on the authors of the index source.
is_throwaway(user_name) == user_name \in {"throwaway1"}

\* Line 64: the fullname of an identifier (no identifier here starts with
\* "t3_" already).
t3_id(i) == "t3_" \o i

\* A variant of ids_needed that asks for every requested identifier.
ids_needed_all(ids_req, store) == {ids_req[n] : n \in 1..Len(ids_req)}

\* Lines 62-63: the identifiers to ask the live source for.
ids_needed(ids_req, store) == {ids_req[n] : n \in 1..Len(ids_req)} \ DOMAIN store

\* A variant of store_all that starts from an empty shelf.
store_fresh(store, found) ==
    [k \in {sub.id : sub \in found} |-> CHOOSE sub \in found : sub.id = k]

\* Lines 67-69: the shelf after the submissions `found` are stored, each
\* under its own id.
store_all(store, found) ==
    [k \in DOMAIN store \cup {sub.id : sub \in found} |->
        IF \E sub \in found : sub.id = k
        THEN CHOOSE sub \in found : sub.id = k
        ELSE store[k]]

\* A variant of get_reddit_info that answers "NA" for an identifier that is
\* not in the shelf.
get_reddit_info_na(a, store, id_, author_pushshift) ==
    IF a.skip \/ (a.throwaway_only /\ ~is_throwaway(author_pushshift))
    THEN <<"NA", FALSE, FALSE, FALSE>>
    ELSE IF id_ \notin DOMAIN store
    THEN <<"NA", FALSE, FALSE, TRUE>>
    ELSE LET submission == store[id_]
         IN  <<IF submission.author = None THEN "[deleted]" ELSE submission.author,
               \/ submission.selftext = "[deleted]"
               \/ submission.title = "[deleted by user]"
               \/ submission.removed_by_category = "deleted",
               submission.selftext = "[removed]",
               FALSE>>

\* get_reddit_info (lines 73-115): (author_reddit, is_deleted, is_removed,
\* warned), the last telling whether the not-in-shelf warning was printed.
get_reddit_info(a, store, id_, author_pushshift) ==
    IF a.skip
    THEN <<"NA", FALSE, FALSE, FALSE>>
    ELSE IF a.throwaway_only /\ ~is_throwaway(author_pushshift)
    THEN <<"NA", FALSE, FALSE, FALSE>>
    ELSE IF id_ \notin DOMAIN store
    THEN <<"[deleted]", FALSE, FALSE, TRUE>>
    ELSE LET submission == store[id_]
             \* not submission.author: None is falsy
             author_reddit ==
                 IF submission.author = None THEN "[deleted]" ELSE submission.author
             is_removed == submission.selftext = "[removed]"
             is_deleted ==
                 \/ submission.selftext = "[deleted]"
                 \/ submission.title = "[deleted by user]"
                 \/ submission.removed_by_category = "deleted"
         IN  <<author_reddit, is_deleted, is_removed, FALSE>>

\* construct_df, lines 148-171: the row of one record of the batch (the
\* columns computed from the live lookup; the others copy index fields).
results_row(a, store, pr) ==
    LET r == get_reddit_info(a, store, pr.id, pr.author)
    IN  [id |-> pr.id,
         author_p |-> pr.author,
         author_r |-> r[1],
         del_author_p |-> pr.author = "[deleted]",
         del_author_r |-> r[1] = "[deleted]",
         del_text_r |-> r[2],
         rem_text_r |-> r[3]]

\* A variant of ids_repeating that asks for more than two occurrences.
ids_repeating_over_two(pushshift_batch) ==
    {pushshift_batch[n].id : n \in {m \in 1..Len(pushshift_batch) :
        \E k, l \in 1..Len(pushshift_batch) :
            /\ k # m /\ l # m /\ k # l
            /\ pushshift_batch[k].id = pushshift_batch[m].id
            /\ pushshift_batch[l].id = pushshift_batch[m].id}}

\* Lines 198-200: the identifiers that occur more than once in the batch.
ids_repeating(pushshift_batch) ==
    {pushshift_batch[n].id : n \in {m \in 1..Len(pushshift_batch) :
        \E k \in 1..Len(pushshift_batch) : k # m /\ pushshift_batch[k].id = pushshift_batch[m].id}}

\* What construct_df prints: a warning per record whose id is not in the
\* shelf, and the repeat-IDs warning.
warnings(a, store, pushshift_batch) ==
    {[kind |-> "not in shelf", ids |-> {pushshift_batch[n].id}] :
        n \in {m \in 1..Len(pushshift_batch) :
            get_reddit_info(a, store, pushshift_batch[m].id, pushshift_batch[m].author)[4]}}
    \cup (IF ids_repeating(pushshift_batch) # {}
          THEN {[kind |-> "repeat IDs", ids |-> ids_repeating(pushshift_batch)]}
          ELSE {})

NoArgs == [skip |-> FALSE, throwaway_only |-> FALSE]

InitQuery ==
    /\ shelf = <<>>
    /\ args = NoArgs
    /\ pushshift_results = <<>>
    /\ t3_ids = {}
    /\ info = {}
    /\ posts_df = <<>>
    /\ printed = {}

\* A run of reddit_query.py reaches construct_df with its options and the
\* batch the paginator collected.
QueryRun ==
    /\ program = "reddit_query"
    /\ pc = "idle"
    /\ pc' = "construct_df"
    /\ args' \in Args
    /\ pushshift_results' \in Batches
    /\ UNCHANGED <<program, network, other_vars, watch_vars, shelf, t3_ids, info, posts_df, printed>>

\* prefetch_reddit_posts (lines 57-70), called at line 137: REDDIT.info
\* returns a submission for the identifiers `got` among those asked for.
PrefetchShelf ==
    /\ program = "reddit_query"
    /\ pc = "construct_df"
    /\ pc' = "prefetched"
    /\ LET ids_all == [n \in 1..Len(pushshift_results) |-> pushshift_results[n].id]
           needed == ids_needed(ids_all, shelf)
       IN  /\ t3_ids' = {t3_id(i) : i \in needed}
           /\ \E got \in SUBSET needed :
                \E a \in Returned("A", got), b \in Returned("B", got) :
                  info' = {Submission(i, IF i = "A" THEN a ELSE b) : i \in got}
           /\ shelf' = store_all(shelf, info')
           /\ network' = info_requests(needed)
    /\ UNCHANGED <<program, other_vars, watch_vars, args, pushshift_results, posts_df, printed>>

\* construct_df, lines 138-201: the loop over the batch and the warnings.
ConstructDf ==
    /\ program = "reddit_query"
    /\ pc = "prefetched"
    /\ pc' = "returned"
    /\ posts_df' = [n \in 1..Len(pushshift_results) |->
                       results_row(args, shelf, pushshift_results[n])]
    /\ printed' = warnings(args, shelf, pushshift_results)
    /\ UNCHANGED <<program, network, other_vars, watch_vars, shelf, args, pushshift_results, t3_ids, info>>

\* The run ends: the shelf file stays, everything else is gone.
QueryExit ==
    /\ program = "reddit_query"
    /\ pc = "returned"
    /\ pc' = "idle"
    /\ args' = NoArgs
    /\ pushshift_results' = <<>>
    /\ t3_ids' = {}
    /\ info' = {}
    /\ posts_df' = <<>>
    /\ printed' = {}
    /\ network' = <<>>
    /\ UNCHANGED <<program, other_vars, watch_vars, shelf>>

(***************************************************************************)
(* The paginator, reddit_query.py: query_pushshift asks the index source   *)
(* (Pushshift) for one page, collect_pushshift_results collects the pages  *)
(* of a window [after, before).  Times are integers; an entry of a page is *)
(* a record with its created_utc.                                          *)
(***************************************************************************)
PUSHSHIFT_LIMIT == 100

\* The largest small row limit; the limit just over PUSHSHIFT_LIMIT is
\* modelled too.
MaxLimit == 3

RowLimits == (0..MaxLimit) \cup {PUSHSHIFT_LIMIT + 1}

\* The window of a run and the creation times of the entries in it.
Window == [after |-> 0, before |-> 2]

\* The totals get_pushshift_total reports for the window.
Totals == {1, 3}

\* query_pushshift, lines 217-220: the limit parameter of the request.
limit_param(row_limit) ==
    IF row_limit >= PUSHSHIFT_LIMIT THEN PUSHSHIFT_LIMIT ELSE row_limit

\* A page of n entries: the last one created at t, the ones before it at lo.
page(n, lo, t) == [i \in 1..n |-> [created_utc |-> IF i = n THEN t ELSE lo]]

\* The pages the index source may answer a request with: at most as many
\* entries as the limit parameter allows, created in [after, before), in
\* order.  Pages above MaxLimit entries are empty or full.
Pages(cap, after, before) ==
    IF cap <= MaxLimit
    THEN {<<>>}
         \cup {page(1, t, t) : t \in after..(before - 1)}
         \cup UNION {{page(n, lo, t) : lo \in after..t} :
                        n \in 2..cap, t \in after..(before - 1)}
    ELSE {<<>>, page(cap, after, after)}

\* What is recorded of a call of query_pushshift: the request and the size
\* of the page it returned.
Query(row_limit, after, before, pg) ==
    [limit_param |-> limit_param(row_limit), after |-> after,
     before |-> before, len |-> Len(pg)]

\* np.linspace(0, stop, num).astype(int).tolist(): num evenly spaced
\* numbers from 0 to stop, the last one stop itself, cut to integers.  (On
\* the inputs modelled the floating-point products are exact.)
linspace_one(stop, num) == [i \in 1..num |-> 0]

linspace(stop, num) ==
    [i \in 1..num |->
        IF num = 1 THEN 0
        ELSE IF i = num THEN stop
        ELSE ((i - 1) * stop) \div (num - 1)]

\* rs.get_offsets: row_limit evenly spaced offsets across
\* [0, total_count - 1], cut to integers.
get_offsets(total_count, row_limit) == linspace(total_count - 1, row_limit)

\* collect_pushshift_results, line 305: results_found[0:limit], limit >= 0.
first_all(found, row_limit) == found

first_limit(found, row_limit) ==
    SubSeq(found, 1, IF row_limit < Len(found) THEN row_limit ELSE Len(found))

InitCollect ==
    /\ sample = FALSE
    /\ limit = 0
    /\ offsets = <<>>
    /\ results = <<>>
    /\ results_found = <<>>
    /\ queries = <<>>

\* collect_pushshift_results is called, lines 274-279 and 292: the options,
\* the total and, when sampling, the offsets.
Collect ==
    /\ program = "collect_pushshift_results"
    /\ pc = "idle"
    /\ \E s \in BOOLEAN, l \in RowLimits, total \in Totals :
          /\ s => l <= MaxLimit
          /\ ~s => total = 1
          /\ sample' = s
          /\ limit' = l
          /\ offsets' = IF s THEN get_offsets(total, l) ELSE <<>>
          /\ pc' = IF s THEN "sampling" ELSE "first"
    /\ UNCHANGED <<program, network, watch_vars, query_vars, results,
                   results_found, queries, legacy_vars, fetch_vars, file_vars,
                   message_vars>>

\* Lines 294-296: the first query of the sequential mode.
FirstQuery ==
    /\ program = "collect_pushshift_results"
    /\ pc = "first"
    /\ pc' = "paging"
    /\ \E pg \in Pages(limit_param(limit), Window.after, Window.before) :
          /\ results' = pg
          /\ results_found' = pg
          /\ queries' = <<Query(limit, Window.after, Window.before, pg)>>
    /\ UNCHANGED <<program, network, watch_vars, query_vars, sample, limit,
                   offsets, legacy_vars, fetch_vars, file_vars,
                   message_vars>>

\* Line 297: the condition of the while loop.  The variant goes on until a
\* page is empty.
while_not_empty(last_page, found, row_limit) == Len(last_page) # 0

while_condition(last_page, found, row_limit) ==
    Len(last_page) # 0 /\ Len(found) < row_limit

\* Line 300: the lower bound of the next query, the creation time of the
\* last entry of the page just received.  The variant takes the first entry
\* of all those accumulated.
after_new_earliest(last_page, found) == found[1].created_utc

after_new(last_page, found) == last_page[Len(last_page)].created_utc

\* Lines 297-304: one turn of the loop of the sequential mode.
NextQuery ==
    /\ program = "collect_pushshift_results"
    /\ pc = "paging"
    /\ while_condition(results, results_found, limit)
    /\ \E pg \in Pages(limit_param(limit), after_new(results, results_found),
                       Window.before) :
          /\ results' = pg
          /\ results_found' = results_found \o pg
          /\ queries' = Append(queries,
                               Query(limit, after_new(results, results_found),
                                     Window.before, pg))
    /\ UNCHANGED <<program, pc, network, watch_vars, query_vars, sample, limit,
                   offsets, legacy_vars, fetch_vars, file_vars,
                   message_vars>>

\* Lines 297 and 305: the loop ends and the batch is cut to the limit.
Truncate ==
    /\ program = "collect_pushshift_results"
    /\ pc = "paging"
    /\ ~while_condition(results, results_found, limit)
    /\ pc' = "collected"
    /\ results_found' = first_limit(results_found, limit)
    /\ UNCHANGED <<program, network, watch_vars, query_vars, sample, limit,
                   offsets, results, queries, legacy_vars, fetch_vars, file_vars,
                   message_vars>>

\* Lines 282-288: one turn of the loop over the offsets; the page is added
\* whole.
SampleQuery ==
    /\ program = "collect_pushshift_results"
    /\ pc = "sampling"
    /\ Len(queries) < Len(offsets)
    /\ LET after_offset == offsets[Len(queries) + 1]
       IN  \E pg \in Pages(limit_param(limit), Window.after, Window.before) :
              /\ results' = pg
              /\ results_found' = results_found \o pg
              /\ queries' = Append(queries,
                                   Query(limit, after_offset, Window.before, pg))
    /\ UNCHANGED <<program, pc, network, watch_vars, query_vars, sample, limit,
                   offsets, legacy_vars, fetch_vars, file_vars,
                   message_vars>>

\* Line 282: the offsets are used up.
SampleDone ==
    /\ program = "collect_pushshift_results"
    /\ pc = "sampling"
    /\ Len(queries) = Len(offsets)
    /\ pc' = "collected"
    /\ UNCHANGED <<program, network, watch_vars, query_vars, page_vars,
                   legacy_vars, fetch_vars, file_vars,
                   message_vars>>

\* Line 310: the batch is returned; the locals are gone.
CollectReturn ==
    /\ program = "collect_pushshift_results"
    /\ pc = "collected"
    /\ pc' = "idle"
    /\ sample' = FALSE
    /\ limit' = 0
    /\ offsets' = <<>>
    /\ results' = <<>>
    /\ results_found' = <<>>
    /\ queries' = <<>>
    /\ UNCHANGED <<program, network, watch_vars, query_vars, legacy_vars,
                   fetch_vars, file_vars,
                   message_vars>>

(***************************************************************************)
(* ordered_firsts_sample of reddit-query.py, the sampling of the earlier   *)
(* script: the whole range is collected and limit items are drawn from it. *)
(***************************************************************************)
\* The longest list modelled, next to the list of 37 items.
MaxItems == 4

SampleInputs ==
    {<<n, l>> : n \in 1..MaxItems, l \in 0..MaxLimit} \cup {<<37, 10>>}

\* Line 230: the indexes drawn.
sampled_index_of(its, row_limit) == linspace(Len(its) - 1, row_limit)

\* Lines 225-233.
ordered_firsts_sample(its, row_limit) ==
    [k \in 1..row_limit |-> its[sampled_index_of(its, row_limit)[k] + 1]]

InitLegacy ==
    /\ items = <<>>
    /\ sampled_index = <<>>
    /\ sampled_items = <<>>

\* Line 273: results_all = ordered_firsts_sample(results_all, limit).
OrderedFirstsSample ==
    /\ program = "reddit-query.py"
    /\ pc = "idle"
    /\ pc' = "sampled"
    /\ \E inp \in SampleInputs :
          /\ items' = [i \in 1..inp[1] |-> [created_utc |-> i]]
          /\ limit' = inp[2]
          /\ sampled_index' = sampled_index_of(items', inp[2])
          /\ sampled_items' = ordered_firsts_sample(items', inp[2])
    /\ UNCHANGED <<program, network, watch_vars, query_vars, sample, offsets,
                   results, results_found, queries, fetch_vars, file_vars,
                   message_vars>>

\* The sample is returned to collect_pushshift_results.
SampleReturn ==
    /\ program = "reddit-query.py"
    /\ pc = "sampled"
    /\ pc' = "idle"
    /\ items' = <<>>
    /\ limit' = 0
    /\ sampled_index' = <<>>
    /\ sampled_items' = <<>>
    /\ UNCHANGED <<program, network, watch_vars, query_vars, sample, offsets,
                   results, results_found, queries, fetch_vars, file_vars,
                   message_vars>>

(***************************************************************************)
(* get_JSON of web_utils.py, the fetcher of the index source.  cachier     *)
(* keeps the results of the calls that returned, by url.                   *)
(***************************************************************************)
Urls == {"url1", "url2"}

\* Line 116: the default of the parameter rate_limit.
rate_limit == 2

\* Line 126: what a call does before its first request.
before_request_none == <<>>

before_request == <<Sleep(rate_limit)>>

\* Lines 137-141: the handler of a RequestException of the first request.
on_exception_again(ok) ==
    <<Sleep(300), Request("pushshift", FALSE), Sleep(300), Request("pushshift", ok)>>

on_exception(ok) == <<Sleep(300), Request("pushshift", ok)>>

InitFetch ==
    /\ url = None
    /\ cache = {}

\* get_JSON is called: cachier answers a url it holds a result for, else
\* the function starts with its sleep, line 126.
GetJSON ==
    /\ program = "get_JSON"
    /\ pc = "idle"
    /\ \E u \in Urls :
          /\ url' = u
          /\ pc' = IF u \in cache THEN "returned" ELSE "try"
          /\ network' = IF u \in cache THEN <<>> ELSE before_request
    /\ UNCHANGED <<program, watch_vars, query_vars, page_vars, legacy_vars,
                   cache, file_vars,
                   message_vars>>

\* Lines 134-136: the first request and raise_for_status.
TryGet ==
    /\ program = "get_JSON"
    /\ pc = "try"
    /\ \E ok \in BOOLEAN :
          /\ network' = Append(network, Request("pushshift", ok))
          /\ pc' = IF ok THEN "got" ELSE "except"
    /\ UNCHANGED <<program, watch_vars, query_vars, page_vars, legacy_vars,
                   fetch_vars, file_vars,
                   message_vars>>

\* Lines 137-141: the wait, the second request and raise_for_status, whose
\* exception leaves the function.
ExceptGet ==
    /\ program = "get_JSON"
    /\ pc = "except"
    /\ \E ok \in BOOLEAN :
          /\ network' = network \o on_exception(ok)
          /\ pc' = IF ok THEN "got" ELSE "raised"
    /\ UNCHANGED <<program, watch_vars, query_vars, page_vars, legacy_vars,
                   fetch_vars, file_vars,
                   message_vars>>

\* Lines 142-148: the content is returned (and cachier keeps it) when its
\* type is the one asked for, else OSError is raised.
Decode ==
    /\ program = "get_JSON"
    /\ pc = "got"
    /\ \E is_json \in BOOLEAN :
          /\ pc' = IF is_json THEN "returned" ELSE "raised"
          /\ cache' = IF is_json THEN cache \cup {url} ELSE cache
    /\ UNCHANGED <<program, network, watch_vars, query_vars, page_vars,
                   legacy_vars, url, file_vars,
                   message_vars>>

\* The call is over, by a return or by an exception.
GetJSONEnd ==
    /\ program = "get_JSON"
    /\ pc \in {"returned", "raised"}
    /\ pc' = "idle"
    /\ url' = None
    /\ network' = <<>>
    /\ UNCHANGED <<program, watch_vars, query_vars, page_vars, legacy_vars,
                   cache, file_vars,
                   message_vars>>

(***************************************************************************)
(* The files of reddit_watch.py: main, init_archive and                    *)
(* rotate_archive_fns.  A file name is the sequence of its parts; a table  *)
(* is known by the runs that made it, one after the other; a zip           *)
(* file holds the sequence of its entries.  A run that raises ends there.  *)
(***************************************************************************)
\* The last NOW of the runs of main.
MaxRuns == 3

Subreddits == {"r1", "r2"}

\* The values of --init: subreddits joined by "+".
InitLists == {<<"r1">>, <<"r2">>, <<"r1", "r2">>}

INI_FN == <<"watch-REDDIT.ini">>

\* init_watch_pushshift, lines 83-86: the name of the file of a target (the
\* runs modelled share the date and the number of submissions found).
watch_fn(subreddit) == <<"watch-", subreddit, ".csv">>

\* update_watch, line 189.
updated_name(fn) == <<"updated-">> \o fn

removeprefix(name, prefix) ==
    IF name # <<>> /\ Head(name) = prefix THEN Tail(name) ELSE name

removesuffix(name, suffix) ==
    IF name # <<>> /\ name[Len(name)] = suffix
    THEN SubSeq(name, 1, Len(name) - 1)
    ELSE name

\* rotate_archive_fns, lines 199-207, and init_archive, lines 228-229.
bare_fn(fn) == removesuffix(removeprefix(fn, "updated-"), ".csv")

stamped_fn(fn, stamp) == bare_fn(fn) \o <<"-arch_", ToString(stamp), ".csv">>

zipped_fn(fn) == bare_fn(fn) \o <<"-arch.zip">>

latest_fn(fn) == bare_fn(fn) \o <<".csv">>

\* The table init_watch_pushshift writes and the one update_watch makes of
\* the table it read.
Fresh(NOW_STR) == [table |-> <<NOW_STR>>]

Reconciled(NOW_STR, watched) == [table |-> Append(watched.table, NOW_STR)]

exists(fs, name) == name \in DOMAIN fs

write(fs, name, content) ==
    [n \in DOMAIN fs \cup {name} |-> IF n = name THEN content ELSE fs[n]]

unlink(fs, name) == [n \in DOMAIN fs \ {name} |-> fs[n]]

\* Path.rename: the target is replaced when it exists.
rename(fs, name, target) == write(unlink(fs, name), target, fs[name])

Entry(arcname, content) == [arcname |-> arcname, content |-> content]

\* zipfile.ZipFile(mode="w"): a new archive with one entry, in place of
\* whatever the name held.
zip_create(fs, name, entry) == write(fs, name, [zip |-> <<entry>>])

\* zipfile.ZipFile(mode="a"): one entry more at the end.
zip_append_twice(fs, name, entry) ==
    write(fs, name, [zip |-> fs[name].zip \o <<entry, entry>>])

zip_append(fs, name, entry) ==
    write(fs, name, [zip |-> Append(fs[name].zip, entry)])

\* ConfigParser: the options of the section "watching", in order.
config_set(cfg, key, value) ==
    IF \E i \in 1..Len(cfg) : cfg[i].key = key
    THEN [i \in 1..Len(cfg) |->
             IF cfg[i].key = key THEN [key |-> key, fn |-> value] ELSE cfg[i]]
    ELSE Append(cfg, [key |-> key, fn |-> value])

InitFiles ==
    /\ files = <<>>
    /\ init = <<>>
    /\ config = <<>>
    /\ todo = <<>>
    /\ watched_fn = <<>>
    /\ updated_fn = <<>>

Rest == <<program, network, latest, updated, submissions, query_vars,
          page_vars, legacy_vars, fetch_vars, message_vars>>

\* main, lines 297-300, with --init: the process starts, the registry file
\* is made if there is none, and read.
MainInit ==
    /\ program = "reddit_watch.main"
    /\ pc = "idle"
    /\ now < MaxRuns
    /\ now' = now + 1
    /\ pc' = "init_loop"
    /\ init' \in InitLists
    /\ todo' = init'
    /\ files' = IF exists(files, INI_FN) THEN files
                ELSE write(files, INI_FN, [watching |-> <<>>])
    /\ config' = files'[INI_FN].watching
    /\ UNCHANGED <<Rest, watched_fn, updated_fn>>

\* Lines 301-303: init_watch_pushshift writes the file of the next
\* subreddit and the target is set in the ConfigParser.
InitTarget ==
    /\ program = "reddit_watch.main"
    /\ pc = "init_loop"
    /\ todo # <<>>
    /\ pc' = "update_watch"
    /\ watched_fn' = watch_fn(Head(todo))
    /\ files' = write(files, watched_fn', Fresh(now))
    /\ config' = config_set(config, Head(todo), watched_fn')
    /\ todo' = Tail(todo)
    /\ UNCHANGED <<Rest, now, init, updated_fn>>

\* Lines 307-308: the registry file is written after the loop, and the run
\* ends.
WriteIni ==
    /\ program = "reddit_watch.main"
    /\ pc = "init_loop"
    /\ todo = <<>>
    /\ pc' = "idle"
    /\ files' = write(files, INI_FN, [watching |-> config])
    /\ init' = <<>>
    /\ config' = <<>>
    /\ watched_fn' = <<>>
    /\ updated_fn' = <<>>
    /\ UNCHANGED <<Rest, now, todo>>

\* Lines 309-311, without --init: the process starts and reads the
\* registry; config["watching"] raises KeyError when there is no file.
MainWatch ==
    /\ program = "reddit_watch.main"
    /\ pc = "idle"
    /\ now < MaxRuns
    /\ now' = now + 1
    /\ IF exists(files, INI_FN)
       THEN /\ pc' = "watch_loop"
            /\ config' = files[INI_FN].watching
            /\ todo' = [i \in 1..Len(config') |-> config'[i].fn]
       ELSE /\ pc' = "raised KeyError"
            /\ UNCHANGED <<config, todo>>
    /\ UNCHANGED <<Rest, files, init, watched_fn, updated_fn>>

\* Lines 311-312: the next target of the registry.
WatchTarget ==
    /\ program = "reddit_watch.main"
    /\ pc = "watch_loop"
    /\ todo # <<>>
    /\ pc' = "update_watch"
    /\ watched_fn' = Head(todo)
    /\ todo' = Tail(todo)
    /\ UNCHANGED <<Rest, now, files, init, config, updated_fn>>

\* Line 311: no target is left and the run ends.
WatchDone ==
    /\ program = "reddit_watch.main"
    /\ pc = "watch_loop"
    /\ todo = <<>>
    /\ pc' = "idle"
    /\ config' = <<>>
    /\ watched_fn' = <<>>
    /\ updated_fn' = <<>>
    /\ UNCHANGED <<Rest, now, files, init, todo>>

\* update_watch as the files see it, lines 146-191: the file must exist
\* (line 149), the lookup of prefetch_reddit_posts may raise (line 153), and
\* the table made of the one read is written under the updated- name.
\* update_watch, lines 150-152: what the function has done to the files
\* when it calls prefetch_reddit_posts.  It has read the file of the target
\* and copied the DataFrame in memory.  The variant has written the copy
\* under the updated- name already.
before_lookup_written(fs, fn) == write(fs, updated_name(fn), fs[fn])

before_lookup(fs, fn) == fs

UpdateWatchFile ==
    /\ program = "reddit_watch.main"
    /\ pc = "update_watch"
    /\ \E lookup_ok \in BOOLEAN :
          IF exists(files, watched_fn) /\ lookup_ok
          THEN /\ updated_fn' = updated_name(watched_fn)
               /\ files' = write(files, updated_fn',
                                 Reconciled(now, files[watched_fn]))
               /\ pc' = IF init # <<>> THEN "init_archive" ELSE "rotate"
          ELSE IF exists(files, watched_fn)
          THEN /\ pc' = "raised by REDDIT.info"
               /\ files' = before_lookup(files, watched_fn)
               /\ UNCHANGED updated_fn
          ELSE /\ pc' = "raised AssertionError"
               /\ UNCHANGED <<files, updated_fn>>
    /\ UNCHANGED <<Rest, now, init, config, todo, watched_fn>>

\* init_archive, lines 225-233.
InitArchive ==
    /\ program = "reddit_watch.main"
    /\ pc = "init_archive"
    /\ pc' = "rotate"
    /\ files' = zip_create(files, zipped_fn(updated_fn),
                           Entry(updated_fn, files[updated_fn]))
    /\ UNCHANGED <<Rest, now, init, config, todo, watched_fn, updated_fn>>

\* Someone else removes the latest file or the archive of the target just
\* before rotate_archive_fns is called: the cases lines 197-198, 208-213
\* and 215-222 look for.
Interfere ==
    /\ program = "reddit_watch.main"
    /\ pc = "rotate"
    /\ \E name \in {latest_fn(updated_fn), zipped_fn(updated_fn)} :
          /\ exists(files, name)
          /\ files' = unlink(files, name)
    /\ UNCHANGED <<Rest, pc, now, init, config, todo, watched_fn, updated_fn>>

\* rotate_archive_fns, lines 197-198, 208 and 212-213: the checks.  The variant
\* asks for the archive as well.
rotate_checks_archive(fs, fn) ==
    /\ exists(fs, fn)
    /\ exists(fs, latest_fn(fn))
    /\ exists(fs, zipped_fn(fn))

rotate_checks(fs, fn) ==
    /\ exists(fs, fn)
    /\ exists(fs, latest_fn(fn))

RotateCall ==
    /\ program = "reddit_watch.main"
    /\ pc = "rotate"
    /\ pc' = IF rotate_checks(files, updated_fn)
             THEN "rename_latest"
             ELSE "raised RuntimeError"
    /\ UNCHANGED <<Rest, now, file_vars>>

\* Line 210: latest_path.rename(stamped_path).  The variant moves the
\* updated file to the latest name first.
rotate_latest_swapped(fs, fn, stamp) == rename(fs, fn, latest_fn(fn))

rotate_latest(fs, fn, stamp) == rename(fs, latest_fn(fn), stamped_fn(fn, stamp))

\* Line 211: updated_fn.rename(latest_path).  The variant moves it to the
\* stamped name.
rotate_updated_stamped(fs, fn, stamp) == rename(fs, fn, stamped_fn(fn, stamp))

rotate_updated(fs, fn, stamp) == rename(fs, fn, latest_fn(fn))

\* Line 210, or an OSError.
RenameLatest ==
    /\ program = "reddit_watch.main"
    /\ pc = "rename_latest"
    /\ \E ok \in BOOLEAN :
          IF ok
          THEN /\ files' = rotate_latest(files, updated_fn, now)
               /\ pc' = "rename_updated"
          ELSE /\ pc' = "raised OSError"
               /\ UNCHANGED files
    /\ UNCHANGED <<Rest, now, init, config, todo, watched_fn, updated_fn>>

\* Line 211, or an OSError (always one when the file is not there).
RenameUpdated ==
    /\ program = "reddit_watch.main"
    /\ pc = "rename_updated"
    /\ \E ok \in BOOLEAN :
          IF ok /\ exists(files, updated_fn)
          THEN /\ files' = rotate_updated(files, updated_fn, now)
               /\ pc' = "archive"
          ELSE /\ pc' = "raised OSError"
               /\ UNCHANGED files
    /\ UNCHANGED <<Rest, now, init, config, todo, watched_fn, updated_fn>>

\* Where main goes on when rotate_archive_fns returns.
back_to_loop == IF init # <<>> THEN "init_loop" ELSE "watch_loop"

\* Lines 215-218 and 221-222: the stamped file is added to the archive, or
\* an OSError; with no archive there is a critical log line and the function
\* returns.
ArchiveStamped ==
    /\ program = "reddit_watch.main"
    /\ pc = "archive"
    /\ LET stamped == stamped_fn(updated_fn, now)
           zipped == zipped_fn(updated_fn)
       IN  IF exists(files, zipped)
           THEN \E ok \in BOOLEAN :
                   IF ok /\ exists(files, stamped)
                   THEN /\ files' = zip_append(files, zipped,
                                               Entry(stamped, files[stamped]))
                        /\ pc' = "unlink"
                   ELSE /\ pc' = "raised OSError"
                        /\ UNCHANGED files
           ELSE /\ pc' = back_to_loop
                /\ UNCHANGED files
    /\ UNCHANGED <<Rest, now, init, config, todo, watched_fn, updated_fn>>

\* Lines 219-220: stamped_path.unlink(), or an OSError.
UnlinkStamped ==
    /\ program = "reddit_watch.main"
    /\ pc = "unlink"
    /\ \E ok \in BOOLEAN :
          IF ok
          THEN /\ files' = unlink(files, stamped_fn(updated_fn, now))
               /\ pc' = back_to_loop
          ELSE /\ pc' = "raised OSError"
               /\ UNCHANGED files
    /\ UNCHANGED <<Rest, now, init, config, todo, watched_fn, updated_fn>>

(***************************************************************************)
(* reddit_message.py: message_users and its UsersArchive.  The archive     *)
(* file is the sequence of its lines, each the pair of its two fields, the *)
(* header first; a run is one process start with its own NOW.              *)
(***************************************************************************)
\* NOW of the last run of reddit_message.py that is modelled.
MaxMessageRuns == 3

\* The users select_users can find in the input file.
Redditors == {"u1", "u2"}

\* What a call of Redditor.message may end in: the message is sent, or a
\* RedditAPIException whose text has "RATELIMIT" in it, or one without.
Outcomes == {"sent", "RedditAPIException", "RATELIMIT"}

\* A file that is not there.
NoFile == [exists |-> FALSE, lines |-> <<>>]

\* UsersArchive.__init__, lines 96-97: the file is made, header only, when
\* there is none.
ensure_archive(file) ==
    IF file.exists THEN file
    ELSE [exists |-> TRUE, lines |-> <<<<"name", "timestamp">>>>]

\* csv.DictReader over the file: the first line names the fields, every
\* later line is a row, field name -> value.
DictReader(file) ==
    IF file.lines = <<>>
    THEN <<>>
    ELSE LET fieldnames == Head(file.lines)
             col(name) == CHOOSE k \in 1..Len(fieldnames) : fieldnames[k] = name
         IN  [i \in 1..(Len(file.lines) - 1) |->
                 [name |-> file.lines[i + 1][col("name")],
                  timestamp |-> file.lines[i + 1][col("timestamp")]]]

\* Lines 98-101: the names of the rows of the file.
read_users_past(file) ==
    {DictReader(file)[i].name : i \in 1..Len(DictReader(file))}

\* message_users, line 120.  The variant leaves the past users in.
users_todo_all(selected, past) == selected

users_todo_of(selected, past) == selected \ past

\* UsersArchive.update, lines 106-111: the user is added to the set and a
\* row is appended to the file.  The variant does so in a dry run too.
update_always(dry, past, file, user, NOW_STR) ==
    IF user \notin past
    THEN [users_past |-> past \cup {user},
          file |-> [file EXCEPT !.lines = Append(@, <<user, NOW_STR>>)]]
    ELSE [users_past |-> past, file |-> file]

update(dry, past, file, user, NOW_STR) ==
    IF ~dry /\ user \notin past
    THEN [users_past |-> past \cup {user},
          file |-> [file EXCEPT !.lines = Append(@, <<user, NOW_STR>>)]]
    ELSE [users_past |-> past, file |-> file]

\* Lines 131-138: who is messaged in a turn of the loop.  The variant
\* messages in a dry run too.
messaged_always(dry, user) == {user}

messaged(dry, user) == IF dry THEN {} ELSE {user}

InitMessage ==
    /\ archive_fn = NoFile
    /\ dry_run = FALSE
    /\ users = {}
    /\ users_past = {}
    /\ users_todo = {}
    /\ messages = <<>>

Others == <<program, network, latest, updated, submissions, query_vars,
            page_vars, legacy_vars, fetch_vars, file_vars>>

\* message_users, lines 118-120: the process starts with its options and
\* the users selected, the archive is opened and the users to do are set.
MessageUsers ==
    /\ program = "reddit_message"
    /\ pc = "idle"
    /\ now < MaxMessageRuns
    /\ now' = now + 1
    /\ pc' = "users_todo"
    /\ dry_run' \in BOOLEAN
    /\ users' \in SUBSET Redditors
    /\ archive_fn' = ensure_archive(archive_fn)
    /\ users_past' = read_users_past(archive_fn')
    /\ users_todo' = users_todo_of(users', users_past')
    /\ UNCHANGED <<Others, messages>>

\* Lines 128-139: one turn of the loop.  The archive is updated, then the
\* user is messaged unless the run is dry; a RedditAPIException is printed,
\* and raised again when it is a RATELIMIT one.
MessageUser ==
    /\ program = "reddit_message"
    /\ pc = "users_todo"
    /\ \E user \in users_todo :
          LET updated_archive == update(dry_run, users_past, archive_fn, user, now)
          IN  /\ users_past' = updated_archive.users_past
              /\ archive_fn' = updated_archive.file
              /\ users_todo' = users_todo \ {user}
              /\ IF messaged(dry_run, user) = {}
                 THEN UNCHANGED <<pc, messages>>
                 ELSE \E outcome \in Outcomes :
                         /\ messages' = Append(messages,
                                [to |-> user, at |-> now, outcome |-> outcome])
                         /\ pc' = IF outcome = "RATELIMIT"
                                  THEN "raised RedditAPIException"
                                  ELSE pc
    /\ UNCHANGED <<Others, now, dry_run, users>>

\* The loop is over, or the exception has ended the process: the archive
\* file stays, everything else is gone.
MessageExit ==
    /\ program = "reddit_message"
    /\ \/ pc = "users_todo" /\ users_todo = {}
       \/ pc = "raised RedditAPIException"
    /\ pc' = "idle"
    /\ dry_run' = FALSE
    /\ users' = {}
    /\ users_past' = {}
    /\ users_todo' = {}
    /\ UNCHANGED <<Others, now, archive_fn, messages>>

(***************************************************************************)
(* The specification: a behaviour follows one script, or one part of one.  *)
(***************************************************************************)
Init ==
    /\ program \in {"reddit_watch", "reddit_query", "collect_pushshift_results",
                    "reddit-query.py", "get_JSON", "reddit_watch.main",
                    "reddit_message"}
    /\ pc = IF program = "reddit_watch" THEN "uninitialized" ELSE "idle"
    /\ network = <<>>
    /\ InitWatch
    /\ InitQuery
    /\ InitCollect
    /\ InitLegacy
    /\ InitFetch
    /\ InitFiles
    /\ InitMessage

Next ==
    \/ InitRun
    \/ WatchRun
    \/ Prefetch
    \/ UpdateWatch
    \/ Rotate
    \/ QueryRun
    \/ PrefetchShelf
    \/ ConstructDf
    \/ QueryExit
    \/ Collect
    \/ FirstQuery
    \/ NextQuery
    \/ Truncate
    \/ SampleQuery
    \/ SampleDone
    \/ CollectReturn
    \/ OrderedFirstsSample
    \/ SampleReturn
    \/ GetJSON
    \/ TryGet
    \/ ExceptGet
    \/ Decode
    \/ GetJSONEnd
    \/ MainInit
    \/ InitTarget
    \/ WriteIni
    \/ MainWatch
    \/ WatchTarget
    \/ WatchDone
    \/ UpdateWatchFile
    \/ InitArchive
    \/ Interfere
    \/ RotateCall
    \/ RenameLatest
    \/ RenameUpdated
    \/ ArchiveStamped
    \/ UnlinkStamped
    \/ MessageUsers
    \/ MessageUser
    \/ MessageExit

Spec == Init /\ [][Next]_vars

(***************************************************************************)
(* Properties of the watch path.  In a state with pc = "updated" the       *)
(* cycle has written its file: latest is what the cycle read, submissions  *)
(* what the live source answered, updated what the cycle wrote, now its    *)
(* time.                                                                   *)
(***************************************************************************)
\* A flag cell, as the boolean it is read back as.
flag(cell) == cell \in TrueWords

\* Two text cells with the same value (the boolean words of one value count
\* as the same).
same_text(x, y) == x = y \/ {x, y} \subseteq TrueWords \/ {x, y} \subseteq FalseWords

\* The cycle has written the updated file.
Written == program = "reddit_watch" /\ pc = "updated"

\* The live source returned the identifier of row i in this cycle.
returned(i) == latest[i].id \in DOMAIN submissions

\* The submission returned for row i.
live(i) == submissions[latest[i].id]

\* The cycle left a flag/timestamp pair of row i as it was.
pair_kept(i, f, utc) ==
    /\ updated[i][utc] = latest[i][utc]
    /\ flag(updated[i][f]) = flag(latest[i][f])

\* The cycle left every sticky field of row i as it was.
sticky_kept(i) ==
    /\ pair_kept(i, "del_author_r", "del_author_r_utc")
    /\ pair_kept(i, "del_text_r", "del_text_r_utc")
    /\ pair_kept(i, "rem_text_r", "rem_text_r_utc")
    /\ same_text(updated[i].removed_by_category_r, latest[i].removed_by_category_r)

\* The cycle set a flag/timestamp pair of row i: flag true, stamped now.
pair_set(i, f, utc) == flag(updated[i][f]) /\ updated[i][utc] = now

\* C1: once the timestamp of a pair is non-empty, no later cycle changes the
\* timestamp or its flag, whatever the live snapshot is.
C1_StickyWrite ==
    Written =>
        \A i \in Index(latest) :
            /\ ~isna(latest[i].del_author_r_utc)
                   => pair_kept(i, "del_author_r", "del_author_r_utc")
            /\ ~isna(latest[i].del_text_r_utc)
                   => pair_kept(i, "del_text_r", "del_text_r_utc")
            /\ ~isna(latest[i].rem_text_r_utc)
                   => pair_kept(i, "rem_text_r", "rem_text_r_utc")

\* C2: a flag that is true in the file a cycle reads is true in the file the
\* cycle writes, also when the live source shows author and text again.
C2_FlagsOneWay ==
    Written =>
        \A i \in Index(latest) :
            \A f \in {"del_author_r", "del_text_r", "rem_text_r"} :
                flag(latest[i][f]) => flag(updated[i][f])

\* A cycle that saw author and text present again on a row whose three flags
\* were true, and wrote them true.
C2_Witness ==
    /\ Written
    /\ \E i \in Index(latest) :
          /\ \A f \in {"del_author_r", "del_text_r", "rem_text_r"} :
                flag(latest[i][f]) /\ flag(updated[i][f])
          /\ returned(i)
          /\ live(i).author = "u1"
          /\ live(i).selftext = "text"
          /\ live(i).title = "title"

\* C3, as stated: the cycle that observes category "spam" on an entry not
\* yet removed sets the removed pair; the cycle that observes "deleted" after
\* "spam" sets the text-deleted pair and keeps the removed timestamp; the
\* cycle that observes no category sets no removed pair.
C3_CategoryRule_AsStated ==
    Written =>
        \A i \in Index(latest) :
            returned(i) =>
                /\ (live(i).removed_by_category = None /\ isna(latest[i].rem_text_r_utc))
                       => isna(updated[i].rem_text_r_utc)
                /\ (live(i).removed_by_category = "spam" /\ isna(latest[i].rem_text_r_utc))
                       => pair_set(i, "rem_text_r", "rem_text_r_utc")
                /\ (/\ live(i).removed_by_category = "deleted"
                    /\ ~isna(latest[i].rem_text_r_utc)
                    /\ latest[i].removed_by_category_r = "spam")
                       => /\ pair_set(i, "del_text_r", "del_text_r_utc")
                          /\ pair_kept(i, "rem_text_r", "rem_text_r_utc")

\* C3, amended: the same over cycles whose live selftext is not "[removed]"
\* (no category), then "[removed]" with category "spam", then "[removed]" with
\* category "deleted"; the removed pair is set at the "spam" cycle only, with
\* the category recorded, and the "deleted" cycle sets the text-deleted pair,
\* records "deleted" and keeps the removed pair.
C3_CategoryRule ==
    Written =>
        \A i \in Index(latest) :
            returned(i) =>
                /\ (/\ live(i).removed_by_category = None
                    /\ live(i).selftext # "[removed]"
                    /\ isna(latest[i].rem_text_r_utc))
                       => /\ isna(updated[i].rem_text_r_utc)
                          /\ ~flag(updated[i].rem_text_r)
                /\ (/\ live(i).removed_by_category = "spam"
                    /\ live(i).selftext = "[removed]"
                    /\ isna(latest[i].rem_text_r_utc))
                       => /\ pair_set(i, "rem_text_r", "rem_text_r_utc")
                          /\ updated[i].removed_by_category_r = "spam"
                /\ (/\ live(i).removed_by_category = "deleted"
                    /\ live(i).selftext = "[removed]"
                    /\ ~isna(latest[i].rem_text_r_utc)
                    /\ latest[i].removed_by_category_r = "spam")
                       => /\ pair_set(i, "del_text_r", "del_text_r_utc")
                          /\ updated[i].removed_by_category_r = "deleted"
                          /\ pair_kept(i, "rem_text_r", "rem_text_r_utc")

\* The third of three cycles on one entry: found at 1 and not removed then,
\* removed as spam at 2, observed "[removed]" with category "deleted" at 3.
C3_Witness ==
    /\ Written
    /\ now = 3
    /\ Len(latest) = 1
    /\ latest[1].found_utc = 1
    /\ latest[1].rem_text_r_utc = 2
    /\ latest[1].removed_by_category_r = "spam"
    /\ isna(latest[1].del_text_r_utc)
    /\ returned(1)
    /\ live(1).selftext = "[removed]"
    /\ live(1).removed_by_category = "deleted"
    /\ updated[1].del_text_r_utc = 3
    /\ updated[1].rem_text_r_utc = 2

(***************************************************************************)
(* Properties of the query path.  In a state with pc = "returned"          *)
(* construct_df has built posts_df from pushshift_results and the shelf.   *)
(***************************************************************************)
\* construct_df has returned.
Built == program = "reddit_query" /\ pc = "returned"

\* get_reddit_info looks record n up in the shelf: neither --skip nor
\* --throwaway-only passes it over.
looked_up(n) ==
    /\ ~args.skip
    /\ args.throwaway_only => is_throwaway(pushshift_results[n].author)

\* The not-in-shelf warning was printed for identifier id.
warned(id) == [kind |-> "not in shelf", ids |-> {id}] \in printed

\* C4, as stated: a cycle that observes the live category "deleted" on an
\* entry whose text-deleted timestamp is empty sets the text-deleted pair,
\* whatever the live selftext is; and get_reddit_info reports is_deleted for
\* every submission it looks up whose category is "deleted".
C4_CompoundRule_AsStated ==
    /\ Written =>
          \A i \in Index(latest) :
              (/\ returned(i)
               /\ live(i).removed_by_category = "deleted"
               /\ isna(latest[i].del_text_r_utc))
                  => pair_set(i, "del_text_r", "del_text_r_utc")
    /\ Built =>
          \A n \in Index(posts_df) :
              (/\ looked_up(n)
               /\ posts_df[n].id \in DOMAIN shelf
               /\ shelf[posts_df[n].id].removed_by_category = "deleted")
                  => posts_df[n].del_text_r

\* C4, amended: the same when the live selftext is the removal sentinel or
\* the deletion sentinel; with any other selftext the category "deleted"
\* alone sets nothing in a watch cycle.
C4_CompoundRule ==
    /\ Written =>
          \A i \in Index(latest) :
              (/\ returned(i)
               /\ live(i).removed_by_category = "deleted"
               /\ isna(latest[i].del_text_r_utc))
                  => IF live(i).selftext \in {"[removed]", "[deleted]"}
                     THEN pair_set(i, "del_text_r", "del_text_r_utc")
                     ELSE live(i).title # "[deleted by user]"
                              => /\ isna(updated[i].del_text_r_utc)
                                 /\ ~flag(updated[i].del_text_r)
    /\ Built =>
          \A n \in Index(posts_df) :
              (/\ looked_up(n)
               /\ posts_df[n].id \in DOMAIN shelf
               /\ shelf[posts_df[n].id].removed_by_category = "deleted")
                  => posts_df[n].del_text_r

\* A cycle that set the text-deleted pair on the category alone: selftext
\* "[removed]", an ordinary title, category "deleted".
C4_Witness ==
    /\ Written
    /\ \E i \in Index(latest) :
          /\ returned(i)
          /\ live(i).removed_by_category = "deleted"
          /\ live(i).selftext = "[removed]"
          /\ live(i).title = "title"
          /\ isna(latest[i].del_text_r_utc)
          /\ pair_set(i, "del_text_r", "del_text_r_utc")

\* The premise of the scenario of C5: the second cycle of a target of A, B
\* and C whose entries were all present after the first; the live source
\* reports A with a null author and the category "deleted", and B and C
\* present.
C5_Scenario ==
    /\ Written
    /\ now = 2
    /\ Len(latest) = 3
    /\ \A i \in Index(latest) :
          /\ isna(latest[i].del_author_r_utc) /\ ~flag(latest[i].del_author_r)
          /\ isna(latest[i].del_text_r_utc) /\ ~flag(latest[i].del_text_r)
          /\ isna(latest[i].rem_text_r_utc) /\ ~flag(latest[i].rem_text_r)
          /\ latest[i].removed_by_category_r \in FalseWords
          /\ returned(i)
    /\ live(1).author = None
    /\ live(1).removed_by_category = "deleted"
    /\ live(2) = Submission("B", Present)
    /\ live(3) = Submission("C", Present)

\* The post-state of the scenario of C5.
C5_PostState ==
    /\ pair_set(1, "del_author_r", "del_author_r_utc")
    /\ pair_set(1, "del_text_r", "del_text_r_utc")
    /\ updated[1].del_author_r_utc = updated[1].del_text_r_utc
    /\ updated[1].removed_by_category_r = "deleted"
    /\ sticky_kept(2)
    /\ sticky_kept(3)

\* C5, as stated: the scenario ends in its post-state.
C5_EndToEnd_AsStated == C5_Scenario => C5_PostState

\* C5, amended: the scenario ends in its post-state when the live selftext of
\* A is "[removed]", the only selftext under which the category is recorded.
C5_EndToEnd == (C5_Scenario /\ live(1).selftext = "[removed]") => C5_PostState

\* The scenario of C5 with selftext "[removed]", in its post-state.
C5_Witness == C5_Scenario /\ live(1).selftext = "[removed]" /\ C5_PostState

\* C6, as stated: a cycle stamps checked_utc of every tracked identifier.
C6_CheckedAlways_AsStated ==
    Written => \A i \in Index(latest) : updated[i].checked_utc = now

\* C6, amended: a cycle stamps checked_utc of every identifier the live
\* source returned, also when its three sticky timestamps are all set, and
\* leaves checked_utc of the identifiers it did not return as it was.
C6_CheckedAlways ==
    Written =>
        \A i \in Index(latest) :
            updated[i].checked_utc = IF returned(i) THEN now ELSE latest[i].checked_utc

\* A later cycle that stamped a returned entry whose three sticky timestamps
\* were all set, and left the stamp of an entry that was not returned.
C6_Witness ==
    /\ Written
    /\ \E i, j \in Index(latest) :
          /\ returned(i)
          /\ ~isna(latest[i].del_author_r_utc)
          /\ ~isna(latest[i].del_text_r_utc)
          /\ ~isna(latest[i].rem_text_r_utc)
          /\ latest[i].checked_utc < now
          /\ updated[i].checked_utc = now
          /\ ~returned(j)
          /\ updated[j].checked_utc < now

\* C7, as stated: the row of a requested identifier that is not in the shelf
\* after the prefetch has del_author_r, del_text_r and rem_text_r false, and
\* the warning is printed.
C7_MissingSentinel_AsStated ==
    Built =>
        \A n \in Index(posts_df) :
            posts_df[n].id \notin DOMAIN shelf
                => /\ ~posts_df[n].del_author_r
                   /\ ~posts_df[n].del_text_r
                   /\ ~posts_df[n].rem_text_r
                   /\ warned(posts_df[n].id)

\* C7, amended: when get_reddit_info looks the identifier up, the row has
\* author_r "[deleted]", hence del_author_r true, with del_text_r and
\* rem_text_r false, and the warning is printed; when --skip or
\* --throwaway-only passes the record over, the three are false, author_r is
\* "NA" and nothing is printed for it.
C7_MissingSentinel ==
    Built =>
        \A n \in Index(posts_df) :
            posts_df[n].id \notin DOMAIN shelf
                => /\ ~posts_df[n].del_text_r
                   /\ ~posts_df[n].rem_text_r
                   /\ IF looked_up(n)
                      THEN /\ posts_df[n].author_r = "[deleted]"
                           /\ posts_df[n].del_author_r
                           /\ warned(posts_df[n].id)
                      ELSE /\ posts_df[n].author_r = "NA"
                           /\ ~posts_df[n].del_author_r
                           /\ (\A m \in Index(posts_df) :
                                  posts_df[m].id = posts_df[n].id => ~looked_up(m))
                                  => ~warned(posts_df[n].id)

\* A batch with an identifier the live source did not return, looked up:
\* its row and its warning.
C7_Witness ==
    /\ Built
    /\ \E n \in Index(posts_df) :
          /\ posts_df[n].id \notin DOMAIN shelf
          /\ t3_id(posts_df[n].id) \in t3_ids
          /\ looked_up(n)
          /\ posts_df[n].del_author_r
          /\ ~posts_df[n].del_text_r
          /\ ~posts_df[n].rem_text_r
          /\ warned(posts_df[n].id)

\* C8: a live lookup that leaves identifiers out does not abort the batch.
\* A watch cycle writes a file of as many rows as it read; every returned
\* entry is reconciled (stamped, and its transitions made by the rules of the
\* author and of the deleted text); every entry left out keeps its sticky
\* fields.  construct_df returns one row per record, in order, and the rows of
\* the records it looks up and finds tell the live state.
C8_MissingNotFatal ==
    /\ Written =>
          /\ Len(updated) = Len(latest)
          /\ \A i \in Index(latest) :
                /\ updated[i].id = latest[i].id
                /\ ~returned(i) => sticky_kept(i)
                /\ returned(i) =>
                      /\ updated[i].checked_utc = now
                      /\ (isna(latest[i].del_author_r_utc)
                          /\ live(i).author \in {None, "[deleted]"})
                             => pair_set(i, "del_author_r", "del_author_r_utc")
                      /\ (isna(latest[i].del_text_r_utc)
                          /\ live(i).selftext = "[deleted]")
                             => pair_set(i, "del_text_r", "del_text_r_utc")
    /\ Built =>
          /\ Len(posts_df) = Len(pushshift_results)
          /\ \A n \in Index(posts_df) :
                /\ posts_df[n].id = pushshift_results[n].id
                /\ (looked_up(n) /\ posts_df[n].id \in DOMAIN shelf)
                       => /\ posts_df[n].rem_text_r
                             = (shelf[posts_df[n].id].selftext = "[removed]")
                          /\ posts_df[n].del_author_r
                             = (shelf[posts_df[n].id].author \in {None, "[deleted]"})

\* A cycle in which the live source left out the first entry and returned a
\* later one, whose author transition the cycle made.
C8_Witness ==
    /\ Written
    /\ \E i, j \in Index(latest) :
          /\ i < j
          /\ ~returned(i)
          /\ returned(j)
          /\ sticky_kept(i)
          /\ isna(latest[j].rem_text_r_utc)
          /\ live(j).selftext = "[removed]"
          /\ pair_set(j, "rem_text_r", "rem_text_r_utc")

\* C9: the fullnames a call of prefetch_reddit_posts sends to the live source
\* are those of the requested identifiers that are not keys of the shelf when
\* the call starts; no identifier that is already a key is sent.
C9_Memoization ==
    [][(pc = "construct_df" /\ pc' = "prefetched") =>
          /\ t3_ids' = {t3_id(i) :
                i \in {pushshift_results[n].id : n \in Index(pushshift_results)}
                         \ DOMAIN shelf}
          /\ \A k \in DOMAIN shelf : t3_id(k) \notin t3_ids']_vars

\* A call that asked for a stored identifier and for a new one: only the new
\* one was sent.
C9_Witness ==
    /\ program = "reddit_query"
    /\ pc = "prefetched"
    /\ \E n, m \in Index(pushshift_results) :
          /\ t3_id(pushshift_results[n].id) \notin t3_ids
          /\ pushshift_results[n].id \in DOMAIN shelf
          /\ t3_id(pushshift_results[m].id) \in t3_ids

\* C10: when prefetch_reddit_posts returns, every submission the live source
\* returned is in the shelf under its id, and every key the shelf had before
\* the call is still there with its record.
C10_WriteThrough ==
    [][(pc = "construct_df" /\ pc' = "prefetched") =>
          /\ \A sub \in info' : sub.id \in DOMAIN shelf' /\ shelf'[sub.id] = sub
          /\ \A k \in DOMAIN shelf : k \in DOMAIN shelf' /\ shelf'[k] = shelf[k]]_vars

\* A call that stored a returned submission next to a record stored by an
\* earlier call.
C10_Witness ==
    /\ program = "reddit_query"
    /\ pc = "prefetched"
    /\ info # {}
    /\ \E k \in DOMAIN shelf : k \notin {sub.id : sub \in info}
    /\ \A sub \in info : shelf[sub.id] = sub

(***************************************************************************)
(* Properties of the paginator.  In a state with pc = "collected" the      *)
(* batch is the one collect_pushshift_results returns, and queries tells   *)
(* the pages it was made of.                                               *)
(***************************************************************************)
Collected == program = "collect_pushshift_results" /\ pc = "collected"

RECURSIVE pages_total(_)
\* The entries of all the pages of the calls qs.
pages_total(qs) ==
    IF qs = <<>> THEN 0 ELSE qs[Len(qs)].len + pages_total(SubSeq(qs, 1, Len(qs) - 1))

\* C11: in sequential mode the batch returned has at most row_limit
\* entries, and exactly row_limit when the pages collected hold at least
\* row_limit entries, whatever the index source answered.
C11_SequentialBound ==
    (Collected /\ ~sample) =>
        /\ Len(results_found) <= limit
        /\ pages_total(queries) >= limit => Len(results_found) = limit

\* A run of two queries or more whose pages hold more entries than the
\* limit, cut to the limit.
C11_Witness ==
    /\ Collected
    /\ ~sample
    /\ limit >= 2
    /\ Len(queries) >= 2
    /\ pages_total(queries) > limit
    /\ Len(results_found) = limit

\* C12: in both modes the batch returned has at most row_limit entries.
C12_PaginatorBound == Collected => Len(results_found) <= limit

\* C13, as stated: for a list of total_count >= 1 items and row_limit >= 1
\* the indexes drawn never decrease, are row_limit in number (fewer only if
\* total_count < row_limit), start at 0 and end at total_count - 1; for 37
\* items and row_limit 10 they are 0, 4, ..., 36.
Sampled == program = "reddit-query.py" /\ pc = "sampled" /\ limit >= 1

increasing(seq) == \A i, j \in 1..Len(seq) : i < j => seq[i] <= seq[j]

strictly_increasing(seq) == \A i, j \in 1..Len(seq) : i < j => seq[i] < seq[j]

C13_SampleOffsets_AsStated ==
    Sampled =>
        /\ increasing(sampled_index)
        /\ \/ Len(sampled_index) = limit
           \/ Len(sampled_index) < limit /\ Len(items) < limit
        /\ sampled_index[1] = 0
        /\ sampled_index[Len(sampled_index)] = Len(items) - 1
        /\ (Len(items) = 37 /\ limit = 10)
              => sampled_index = <<0, 4, 8, 12, 16, 20, 24, 28, 32, 36>>

\* C13, amended: the indexes are always row_limit in number, never
\* decrease (and strictly increase when total_count >= row_limit) and start
\* at 0; they end at total_count - 1 when row_limit >= 2, and for
\* row_limit = 1 the one index is 0; for 37 and 10 they are 0, 4, ..., 36.
C13_SampleOffsets ==
    Sampled =>
        /\ increasing(sampled_index)
        /\ Len(items) >= limit => strictly_increasing(sampled_index)
        /\ Len(sampled_index) = limit
        /\ sampled_index[1] = 0
        /\ limit >= 2 => sampled_index[limit] = Len(items) - 1
        /\ limit = 1 => sampled_index = <<0>>
        /\ (Len(items) = 37 /\ limit = 10)
              => sampled_index = <<0, 4, 8, 12, 16, 20, 24, 28, 32, 36>>
        /\ sampled_items = [k \in 1..limit |-> items[sampled_index[k] + 1]]

\* The list of 37 items sampled to 10.
C13_Witness ==
    /\ Sampled
    /\ Len(items) = 37
    /\ limit = 10
    /\ sampled_index = <<0, 4, 8, 12, 16, 20, 24, 28, 32, 36>>

(***************************************************************************)
(* Properties of the network: network holds what the call in hand has done *)
(* so far.                                                                 *)
(***************************************************************************)
\* The places of the requests in a sequence of events.
requests_at(events) == {i \in 1..Len(events) : events[i].op = "request"}

slept_before(events, i) == i > 1 /\ events[i - 1].op = "time.sleep"

\* C14: a call of get_JSON that cachier does not answer makes at most two
\* requests; the second one only after the first failed and after the wait
\* of 300 seconds; when the second fails too the call raises; when the first
\* succeeds there is no other.
C14_RetryOnce ==
    program = "get_JSON" =>
        LET at == requests_at(network)
        IN  /\ Cardinality(at) <= 2
            /\ \A i, j \in at :
                  i < j => /\ ~network[i].ok
                           /\ network[j - 1] = Sleep(300)
                           /\ ~network[j].ok => pc = "raised"
            /\ pc = "except" => Cardinality(at) = 1
            /\ (pc = "raised" /\ Cardinality(at) = 1) => \A i \in at : network[i].ok

\* A call whose two requests failed, and which raised.
C14_Witness ==
    /\ program = "get_JSON"
    /\ pc = "raised"
    /\ url \notin cache
    /\ network = <<Sleep(rate_limit), Request("pushshift", FALSE),
                   Sleep(300), Request("pushshift", FALSE)>>

\* C15, as stated: every request of a call, to either source, comes right
\* after a sleep of the same call.
C15_RateLimitFloor_AsStated ==
    \A i \in requests_at(network) : slept_before(network, i)

\* C15, amended: every request of get_JSON comes right after a sleep of the
\* same call, the first after rate_limit seconds and the retry after 300;
\* prefetch_reddit_posts, in reddit_watch and in reddit_query, sends its
\* request to the live source with no sleep of its own.
C15_RateLimitFloor ==
    /\ program = "get_JSON" =>
          \A i \in requests_at(network) :
              /\ slept_before(network, i)
              /\ network[i].to = "pushshift"
              /\ network[i - 1].seconds = IF i = 2 THEN rate_limit ELSE 300
    /\ program \in {"reddit_watch", "reddit_query"} =>
          /\ \A i \in 1..Len(network) : network[i] = Request("reddit", TRUE)
          /\ Len(network) <= 1
          /\ (program = "reddit_watch" /\ pc \in {"fetched", "updated"})
                => Len(network) = 1
          /\ (program = "reddit_query" /\ pc \in {"prefetched", "returned"})
                => (Len(network) = 1 <=> t3_ids # {})

\* A call of get_JSON that slept before its request and before its retry.
C15_Witness ==
    /\ program = "get_JSON"
    /\ pc = "got"
    /\ network = <<Sleep(rate_limit), Request("pushshift", FALSE),
                   Sleep(300), Request("pushshift", TRUE)>>

(***************************************************************************)
(* Properties of the files of reddit_watch.py.  Between the call of        *)
(* rotate_archive_fns and its return, updated_fn names the file handed to  *)
(* it and watched_fn the file of the target.                               *)
(***************************************************************************)
Main == program = "reddit_watch.main"

\* main is between two targets, or between two runs.
Between == pc \in {"idle", "init_loop", "watch_loop"}

\* rotate_archive_fns has returned for the target in hand.
Rotated == Main /\ pc \in {"init_loop", "watch_loop"} /\ updated_fn # <<>>

is_zip(name) == name[Len(name)] = "-arch.zip"

is_stamped(name) == Len(name) = 5 /\ name[3] = "-arch_"

\* The timestamped entries of an archive.
stamped_entries(archive) == {i \in 1..Len(archive.zip) : is_stamped(archive.zip[i].arcname)}

\* The call of rotate_archive_fns: the step that leaves pc = "rotate".
RotateCalled == pc = "rotate" /\ pc' # "rotate"

\* C16, as stated: when rotate_archive_fns is called and the latest file or
\* the archive is missing, the call raises and the files are as before.
C16_RotationPreconditions_AsStated ==
    [][(Main /\ RotateCalled
        /\ (~exists(files, latest_fn(updated_fn))
            \/ ~exists(files, zipped_fn(updated_fn))))
         => (pc' = "raised RuntimeError" /\ files' = files)]_vars

\* C16, amended: the call raises exactly when the latest file or the
\* updated file is missing, and then no file has changed.  With the archive
\* alone missing it does not raise: the two renames are made, nothing is
\* archived, and it returns with the stamped file left loose next to the new
\* latest file.
C16_RotationPreconditions ==
    [][Main =>
         /\ RotateCalled =>
               /\ files' = files
               /\ pc' = "raised RuntimeError"
                     <=> (~exists(files, latest_fn(updated_fn))
                          \/ ~exists(files, updated_fn))
         /\ (pc = "archive" /\ ~exists(files, zipped_fn(updated_fn))) =>
               /\ pc' = back_to_loop
               /\ files' = files
               /\ exists(files, stamped_fn(updated_fn, now))
               /\ exists(files, latest_fn(updated_fn))
               /\ ~exists(files, updated_fn)]_vars

\* The call found the latest file missing (the archive and the updated
\* file are there) and raised, the files as they were.
C16_Witness ==
    /\ Main
    /\ pc = "raised RuntimeError"
    /\ ~exists(files, latest_fn(updated_fn))
    /\ exists(files, zipped_fn(updated_fn))
    /\ exists(files, updated_fn)
    /\ \A name \in DOMAIN files : ~is_stamped(name)

\* The targets with a file and an archive that main is not at work on.
at_rest(subreddit) ==
    /\ exists(files, watch_fn(subreddit))
    /\ exists(files, zipped_fn(watch_fn(subreddit)))
    /\ Between \/ watched_fn # watch_fn(subreddit)

\* The rotations a target has been through since it was initialized: its
\* latest table was made by as many reconciliations, and each was moved to
\* the latest name by one rotation.
rotations(subreddit) == Len(files[watch_fn(subreddit)].table) - 1

\* C17: the archive of a target that has been through N rotations since its
\* initialization holds N timestamped entries (next to the entry init_archive
\* seeded it with), and the step of a rotation that archives adds exactly
\* one entry.
C17_ArchiveGrowth ==
    /\ [](Main =>
            \A subreddit \in Subreddits :
                at_rest(subreddit) =>
                    LET archive == files[zipped_fn(watch_fn(subreddit))]
                    IN  /\ Cardinality(stamped_entries(archive)) = rotations(subreddit)
                        /\ Len(archive.zip) = rotations(subreddit) + 1)
    /\ [][(Main /\ pc = "archive" /\ pc' = "unlink") =>
             Len(files'[zipped_fn(updated_fn)].zip)
                 = Len(files[zipped_fn(updated_fn)].zip) + 1]_vars

\* A target after its third rotation, with three timestamped entries.
C17_Witness ==
    /\ Main
    /\ \E subreddit \in Subreddits :
          /\ at_rest(subreddit)
          /\ rotations(subreddit) = 3
          /\ Cardinality(stamped_entries(files[zipped_fn(watch_fn(subreddit))])) = 3

Front(seq) == SubSeq(seq, 1, Len(seq) - 1)

\* The content of the file name, wherever it is now: loose or archived.
kept(content) ==
    \/ \E name \in DOMAIN files : ~is_zip(name) /\ name # INI_FN /\ files[name] = content
    \/ \E name \in DOMAIN files :
          /\ is_zip(name)
          /\ \E i \in 1..Len(files[name].zip) : files[name].zip[i].content = content

\* C18: when rotate_archive_fns has returned in a cycle, the latest file of
\* the target is the table update_watch made in the cycle (of the table
\* that was the latest one before), under the name the registry has for the
\* target, and the updated- file is gone.
C18_LatestIsReconciled ==
    Rotated =>
        /\ watched_fn = latest_fn(updated_fn)
        /\ \E i \in 1..Len(config) : config[i].fn = watched_fn
        /\ exists(files, watched_fn)
        /\ ~exists(files, updated_fn)
        /\ LET table == files[watched_fn].table
           IN  /\ table[Len(table)] = now
               /\ Len(table) >= 2
               /\ kept([table |-> Front(table)])

\* A watch cycle (not --init) after whose rotation the latest file is the
\* table of this run, made of the table of the run before.
C18_Witness ==
    /\ Main
    /\ pc = "watch_loop"
    /\ updated_fn # <<>>
    /\ now >= 2
    /\ exists(files, INI_FN)
    /\ \E i \in 1..Len(files[INI_FN].watching) : files[INI_FN].watching[i].fn = watched_fn
    /\ files[watched_fn].table[Len(files[watched_fn].table)] = now
    /\ files[watched_fn].table[Len(files[watched_fn].table) - 1] = now - 1

\* rotate_archive_fns has made its first rename, and has or has not ended
\* (by a return or by the OSError of a later step).
Rotating ==
    /\ Main
    /\ \/ pc \in {"rename_updated", "archive", "unlink"}
       \/ Rotated
       \/ pc = "raised OSError"

\* The table that was the latest one when rotate_archive_fns was called: the
\* one the table of this cycle was made of.
previous_latest ==
    LET new == IF exists(files, updated_fn)
               THEN files[updated_fn]
               ELSE files[latest_fn(updated_fn)]
    IN  [table |-> Front(new.table)]

\* C19: in every state of a rotation, also after the OSError of one of its
\* steps, the table that was the latest one at the call is a loose file or
\* an entry of the archive.
C19_NeverLost ==
    Rotating =>
        /\ exists(files, updated_fn) \/ exists(files, latest_fn(updated_fn))
        /\ kept(previous_latest)

\* The unlink of the stamped file failed: the table is both loose and in
\* the archive, and the new table is the latest one.
C19_Witness ==
    /\ Main
    /\ pc = "raised OSError"
    /\ ~exists(files, updated_fn)
    /\ exists(files, stamped_fn(updated_fn, now))
    /\ files[stamped_fn(updated_fn, now)] = previous_latest
    /\ exists(files, zipped_fn(updated_fn))
    /\ \E i \in 1..Len(files[zipped_fn(updated_fn)].zip) :
          files[zipped_fn(updated_fn)].zip[i]
             = Entry(stamped_fn(updated_fn, now), previous_latest)

is_prefix(old, new) == Len(old) <= Len(new) /\ SubSeq(new, 1, Len(old)) = old

\* C20: no step of the program (an --init run, repeated or not, or a watch
\* cycle) removes or replaces an entry of an archive: every archive is
\* still there after the step, with the entries it had, in order, at its
\* start.
C20_AppendOnly ==
    [][(Main /\ ~Interfere) =>
          \A name \in DOMAIN files :
              is_zip(name) =>
                  /\ exists(files', name)
                  /\ is_prefix(files[name].zip, files'[name].zip)]_vars

(***************************************************************************)
(* Properties of a failed lookup, of the duplicates of a batch and of the  *)
(* options of a query run.                                                 *)
(***************************************************************************)
\* The lookup of the live source raised in update_watch.
LookupRaised == pc = "update_watch" /\ pc' = "raised by REDDIT.info"

\* The registry file, or none.
registry(fs) == IF exists(fs, INI_FN) THEN fs[INI_FN] ELSE <<>>

\* C21: when the lookup of the live source raises in the cycle of a target,
\* the run ends there and the latest table of the target, its archive and
\* the registry file are as they were when the cycle began; no updated-
\* file is there for the target and no file at all has changed.
C21_NoPartialCommit ==
    [][(Main /\ LookupRaised) =>
          /\ files'[watched_fn] = files[watched_fn]
          /\ exists(files, zipped_fn(watched_fn))
                 = exists(files', zipped_fn(watched_fn))
          /\ exists(files, zipped_fn(watched_fn)) =>
                 files'[zipped_fn(watched_fn)] = files[zipped_fn(watched_fn)]
          /\ registry(files') = registry(files)
          /\ ~exists(files', updated_name(watched_fn))
          /\ files' = files]_vars

\* The lookup raised in a watch run, for a target that an earlier cycle had
\* reconciled and archived.
C21_Witness ==
    /\ Main
    /\ pc = "raised by REDDIT.info"
    /\ init = <<>>
    /\ Len(files[watched_fn].table) >= 2
    /\ exists(files, zipped_fn(watched_fn))
    /\ stamped_entries(files[zipped_fn(watched_fn)]) # {}
    /\ ~exists(files, updated_name(watched_fn))

\* The identifiers that occur more than once in the batch of the run.
repeated == {pushshift_results[n].id : n \in
                {m \in Index(pushshift_results) :
                    \E k \in Index(pushshift_results) :
                        k # m /\ pushshift_results[k].id = pushshift_results[m].id}}

\* The repeat-IDs warnings printed.
repeat_warnings == {w \in printed : w.kind = "repeat IDs"}

throwaway_ids ==
    {t3_id(pushshift_results[n].id) :
        n \in {m \in Index(pushshift_results) :
                  is_throwaway(pushshift_results[m].author)}}

\* C23: the prefetch of a run with --skip sends no fullname and no request
\* to the live source, and the prefetch of a run with --throwaway-only sends
\* only fullnames of records whose index-time author is a throwaway account.
C23_SkipBoundsTraffic ==
    [][(program = "reddit_query" /\ pc = "construct_df" /\ pc' = "prefetched") =>
          /\ args.skip => (t3_ids' = {} /\ network' = <<>>)
          /\ args.throwaway_only => t3_ids' \subseteq throwaway_ids]_vars

(***************************************************************************)
(* Properties of the transitions of a watch cycle (Written, returned, live *)
(* and the pairs as above).                                                *)
(***************************************************************************)
\* C26: for a returned entry whose author-deleted timestamp is empty, the
\* cycle sets the author-deleted flag and timestamp (true, the time of the
\* cycle) exactly when the live author is None or "[deleted]", and leaves
\* both as they were otherwise; for a returned entry whose timestamp is
\* set, the pair stays as it was whatever the live author is.
C26_AuthorTrigger ==
    Written =>
        \A i \in Index(latest) :
            returned(i) =>
                /\ isna(latest[i].del_author_r_utc) =>
                      /\ pair_set(i, "del_author_r", "del_author_r_utc")
                            <=> live(i).author \in {None, "[deleted]"}
                      /\ live(i).author \notin {None, "[deleted]"}
                            => pair_kept(i, "del_author_r", "del_author_r_utc")
                /\ ~isna(latest[i].del_author_r_utc)
                      => pair_kept(i, "del_author_r", "del_author_r_utc")

\* A watch cycle after the --init run found the author None on an entry
\* not yet marked and set the pair, the text pairs left empty.
C26_Witness ==
    /\ Written
    /\ now = 2
    /\ \E i \in Index(latest) :
          /\ returned(i)
          /\ isna(latest[i].del_author_r_utc)
          /\ ~flag(latest[i].del_author_r)
          /\ live(i).author = None
          /\ live(i).selftext = "text"
          /\ pair_set(i, "del_author_r", "del_author_r_utc")
          /\ isna(updated[i].del_text_r_utc)
          /\ isna(updated[i].rem_text_r_utc)

\* C27: a cycle sets the text-removed flag and timestamp of every returned
\* entry whose live selftext is "[removed]" and whose text-removed
\* timestamp is empty, whatever the live removal category is.
C27_RemovedTransition ==
    Written =>
        \A i \in Index(latest) :
            (/\ returned(i)
             /\ live(i).selftext = "[removed]"
             /\ isna(latest[i].rem_text_r_utc))
                => pair_set(i, "rem_text_r", "rem_text_r_utc")

\* C28: after a cycle in which the live selftext of a returned entry is
\* "[removed]" and its live removal category, not None, is not the recorded
\* one, the recorded category is the live one, whether the text-removed
\* timestamp was empty or set.
C28_CategoryRecorded ==
    Written =>
        \A i \in Index(latest) :
            (/\ returned(i)
             /\ live(i).selftext = "[removed]"
             /\ live(i).removed_by_category # None
             /\ live(i).removed_by_category # latest[i].removed_by_category_r)
                => updated[i].removed_by_category_r = live(i).removed_by_category

(***************************************************************************)
(* Properties of the order of the steps of rotate_archive_fns and of the   *)
(* loop of the paginator.                                                  *)
(***************************************************************************)
\* The archive of the target in hand has the entry of this rotation.
archived ==
    /\ exists(files, zipped_fn(updated_fn))
    /\ \E i \in 1..Len(files[zipped_fn(updated_fn)].zip) :
          files[zipped_fn(updated_fn)].zip[i].arcname = stamped_fn(updated_fn, now)

\* What is loose of the files of the rotation: the updated file, the latest
\* file and the stamped file.
loose == [updated |-> exists(files, updated_fn),
          latest |-> exists(files, latest_fn(updated_fn)),
          stamped |-> exists(files, stamped_fn(updated_fn, now))]

\* C29: in a rotation that archives, the latest file is renamed to the
\* stamped name first (the updated file still there), then the updated file
\* is moved to the latest name, then the stamped file is appended to the
\* archive, and only then is it deleted; when the function has returned,
\* neither the updated file nor the stamped file is loose and the archive
\* has the entry.  No other step appends the entry or deletes the file.
C29_StepOrder ==
    /\ [](Main =>
            /\ pc = "rename_updated" =>
                  /\ loose = [updated |-> TRUE, latest |-> FALSE, stamped |-> TRUE]
                  /\ ~archived
            /\ pc = "archive" =>
                  /\ loose = [updated |-> FALSE, latest |-> TRUE, stamped |-> TRUE]
                  /\ ~archived
            /\ pc = "unlink" =>
                  /\ loose = [updated |-> FALSE, latest |-> TRUE, stamped |-> TRUE]
                  /\ archived
            /\ (Rotated /\ exists(files, zipped_fn(updated_fn))) =>
                  /\ loose = [updated |-> FALSE, latest |-> TRUE, stamped |-> FALSE]
                  /\ archived)
    /\ [][(Main /\ updated_fn # <<>> /\ updated_fn' = updated_fn) =>
            /\ (~archived /\ archived') => (pc = "archive" /\ pc' = "unlink")
            /\ (loose.stamped /\ ~loose.stamped') =>
                  (pc = "unlink" /\ pc' = back_to_loop)]_vars

\* A watch cycle whose rotation has returned: the archive has the entry of
\* this rotation after the entries of the earlier ones, and only the latest
\* file is loose.
C29_Witness ==
    /\ Main
    /\ pc = "watch_loop"
    /\ updated_fn # <<>>
    /\ now >= 2
    /\ archived
    /\ Len(files[zipped_fn(updated_fn)].zip) >= 3
    /\ loose = [updated |-> FALSE, latest |-> TRUE, stamped |-> FALSE]

\* The sequential mode of collect_pushshift_results, from its first query.
Sequential ==
    program = "collect_pushshift_results" /\ ~sample /\ pc \in {"paging", "collected"}

\* C30: whatever pages the index source answers with, pages that repeat the
\* boundary entry included, the sequential mode makes at most
\* max(1, row_limit) queries; after a query it makes another one or leaves
\* the loop, and it leaves exactly when the last page is empty or the
\* entries accumulated are row_limit or more.
C30_SequentialStops ==
    /\ [](Sequential =>
            /\ Len(queries) >= 1
            /\ Len(queries) <= IF limit > 1 THEN limit ELSE 1)
    /\ [][(Sequential /\ pc = "paging") =>
            /\ pc' \in {"paging", "collected"}
            /\ pc' = "collected"
                  <=> (Len(results) = 0 \/ Len(results_found) >= limit)
            /\ pc' = "paging" => Len(queries') = Len(queries) + 1
            /\ pc' = "collected" => queries' = queries]_vars

\* A call with row limit 3 whose every page was the one entry of the
\* boundary again: it stopped after its third query.
C30_Witness ==
    /\ Sequential
    /\ pc = "collected"
    /\ limit = 3
    /\ Len(queries) = 3
    /\ \A k \in 1..3 : queries[k].len = 1 /\ queries[k].after = Window.after
    /\ Len(results_found) = 3

\* The last entry of page k of the run, in the entries accumulated.
last_of_page(k) == results_found[pages_total(SubSeq(queries, 1, k))]

\* C31: in sequential mode the first query has the lower bound of the
\* window, every later query has the creation time of the last entry of the
\* page just before it, and all the queries have the upper bound of the
\* window and the limit parameter min(row_limit, PUSHSHIFT_LIMIT).
C31_SequentialCursor ==
    /\ [](Sequential =>
            /\ queries[1].after = Window.after
            /\ \A k \in 1..Len(queries) :
                  /\ queries[k].before = Window.before
                  /\ queries[k].limit_param
                        = IF limit < PUSHSHIFT_LIMIT THEN limit ELSE PUSHSHIFT_LIMIT
            /\ pc = "paging" =>
                  \A k \in 2..Len(queries) :
                      queries[k].after = last_of_page(k - 1).created_utc)
    /\ [][(Sequential /\ pc = "paging" /\ pc' = "paging") =>
            queries'[Len(queries')].after = results[Len(results)].created_utc]_vars

\* A run of three queries: the second page ended later than the first, and
\* the third query started where the second page ended, not where the first
\* did.
C31_Witness ==
    /\ Sequential
    /\ pc = "paging"
    /\ Len(queries) = 3
    /\ queries[2].after = last_of_page(1).created_utc
    /\ queries[3].after = last_of_page(2).created_utc
    /\ last_of_page(2).created_utc # last_of_page(1).created_utc
    /\ queries[3].after # results_found[1].created_utc

(***************************************************************************)
(* Properties of the tables a watch target has had.                        *)
(***************************************************************************)
\* The columns update_watch assigns to.
ReconciledColumns ==
    {"checked_utc", "del_author_r", "del_author_r_utc", "del_text_r",
     "del_text_r_utc", "rem_text_r", "rem_text_r_utc", "removed_by_category_r"}

\* C32: the file a cycle writes has the rows of the file it read, one for
\* one, each with the same identifier, subreddit, author at index time,
\* index-deletion flag, creation time and first-seen time; only the columns
\* update_watch assigns to may differ.
C32_CycleFrame ==
    Written =>
        /\ Len(updated) = Len(latest)
        /\ \A i \in Index(latest) :
              /\ DOMAIN updated[i] = DOMAIN latest[i]
              /\ \A col \in DOMAIN latest[i] \ ReconciledColumns :
                    IF col \in FlagColumns
                    THEN flag(updated[i][col]) = flag(latest[i][col])
                    ELSE updated[i][col] = latest[i][col]

(***************************************************************************)
(* Properties of reddit_message.py.  messages is the record of every call  *)
(* of Redditor.message of every run, and a row of the archive file carries *)
(* NOW of the run that wrote it.                                           *)
(***************************************************************************)
Messaging == program = "reddit_message"

\* The calls of Redditor.message for a user.
sent_to(user) == {i \in 1..Len(messages) : messages[i].to = user}

\* The names the archive file held when the run with this NOW started.
past_at_start(NOW_STR) ==
    {DictReader(archive_fn)[i].name :
        i \in {j \in 1..Len(DictReader(archive_fn)) :
                  DictReader(archive_fn)[j].timestamp < NOW_STR}}

\* C24: no message is sent to a user whose name was in the archive file
\* when the run started, and over the runs sharing the archive file, dry or
\* not, whatever Redditor.message answers, no user is messaged twice.
C24_PastUsersSkipped ==
    Messaging =>
        /\ \A i \in 1..Len(messages) :
               messages[i].to \notin past_at_start(messages[i].at)
        /\ \A user \in Redditors : Cardinality(sent_to(user)) <= 1

\* The second run selected both users, skipped the one the first run had
\* messaged and messaged the other.
C24_Witness ==
    /\ Messaging
    /\ pc = "users_todo"
    /\ now = 2
    /\ ~dry_run
    /\ users = Redditors
    /\ users_todo = {}
    /\ past_at_start(2) = {"u1"}
    /\ messages = <<[to |-> "u1", at |-> 1, outcome |-> "sent"],
                    [to |-> "u2", at |-> 2, outcome |-> "sent"]>>

\* C25: in a dry run no message is sent, the rows of the archive file stay
\* as they are (the file is made, header only, if there was none) and the
\* set of past users in memory stays what was read from the file.
C25_DryRun ==
    [][Messaging =>
          /\ (pc = "idle" /\ pc' = "users_todo" /\ dry_run') =>
                /\ messages' = messages
                /\ DictReader(archive_fn') = DictReader(archive_fn)
                /\ users_past' = read_users_past(archive_fn)
          /\ (pc = "users_todo" /\ dry_run) =>
                /\ messages' = messages
                /\ archive_fn' = archive_fn
                /\ pc' = "users_todo" => users_past' = users_past]_vars

\* A dry run went through both users, one of them a past user: nothing was
\* sent in it and the file has the one row it had.
C25_Witness ==
    /\ Messaging
    /\ pc = "users_todo"
    /\ dry_run
    /\ now = 2
    /\ users = Redditors
    /\ users_todo = {}
    /\ users_past = {"u1"}
    /\ Len(messages) = 1
    /\ archive_fn.lines = <<<<"name", "timestamp">>, <<"u1", 1>>>>

(***************************************************************************)
(* Properties of the registry file and of the archive over the runs of     *)
(* main.                                                                   *)
(***************************************************************************)
\* The exceptions that leave main.
RaisedInMain ==
    {"raised AssertionError", "raised by REDDIT.info", "raised RuntimeError",
     "raised OSError", "raised KeyError"}

\* The --init run ends with this step: main returns, or an exception leaves
\* it.
InitRunEnds ==
    /\ Main
    /\ init # <<>>
    /\ pc \notin RaisedInMain \cup {"idle"}
    /\ pc' \in RaisedInMain \cup {"idle"}

\* The subreddits of the run whose table file and archive the run has made
\* in an iteration of the loop that is over.
made_by_run(fs) ==
    {init[i] : i \in {j \in 1..(Len(init) - Len(todo)) :
        /\ pc' \in RaisedInMain => watch_fn(init[j]) # watched_fn
        /\ exists(fs, watch_fn(init[j]))
        /\ Head(fs[watch_fn(init[j])].table) = now
        /\ exists(fs, zipped_fn(watch_fn(init[j])))
        /\ fs[zipped_fn(watch_fn(init[j]))].zip[1].content.table = <<now, now>>}}

\* The registry file has the target of the subreddit, with the path of its
\* table.
recorded(fs, subreddit) ==
    /\ exists(fs, INI_FN)
    /\ \E i \in 1..Len(fs[INI_FN].watching) :
          fs[INI_FN].watching[i] = [key |-> subreddit, fn |-> watch_fn(subreddit)]

\* C33: when an --init run ends, by its return or by an exception in the
\* iteration of a later subreddit, every target whose table file and archive
\* the run has made is recorded in the registry file with the path of its
\* table.
C33_RegistryComplete ==
    [][InitRunEnds => \A s \in made_by_run(files') : recorded(files', s)]_vars

\* A message was sent to the user, in this run or in an earlier one.
sent_ok(user) == \E i \in sent_to(user) : messages[i].outcome = "sent"

\* C34: between the runs of message_users, a user is in the archive file if
\* and only if a call of Redditor.message for the user has returned without
\* an exception, in the run that has ended or in an earlier one.
C34_ArchiveIsMessaged ==
    (Messaging /\ pc = "idle" /\ now > 0) =>
        \A user \in Redditors :
            user \in read_users_past(archive_fn) <=> sent_ok(user)

(***************************************************************************)
(* Properties of every table a watch target has on disk: latest is the     *)
(* file of the target, updated the one a cycle has just written.           *)
(***************************************************************************)
\* The three pairs of a row: a flag and its first-observed timestamp.
Pairs ==
    {<<"del_author_r", "del_author_r_utc">>,
     <<"del_text_r", "del_text_r_utc">>,
     <<"rem_text_r", "rem_text_r_utc">>}

\* The tables on disk.
persisted == {latest, updated}

\* C35: in every table on disk, the one --init wrote and the ones the
\* cycles wrote after it, each flag of each row is true if and only if its
\* timestamp is not empty.
C35_FlagTimestampPaired ==
    program = "reddit_watch" =>
        \A table \in persisted : \A i \in Index(table) : \A pair \in Pairs :
            flag(table[i][pair[1]]) <=> ~isna(table[i][pair[2]])

\* A table written by the third cycle, by the branch of lines 183-187 too:
\* removed in the first cycle, "deleted" by category in the second, the
\* author never deleted.
C35_Witness ==
    /\ program = "reddit_watch"
    /\ pc = "idle"
    /\ now = 3
    /\ flag(latest[1].rem_text_r) /\ latest[1].rem_text_r_utc = 1
    /\ flag(latest[1].del_text_r) /\ latest[1].del_text_r_utc = 2
    /\ latest[1].removed_by_category_r = "deleted"
    /\ ~flag(latest[1].del_author_r) /\ isna(latest[1].del_author_r_utc)

\* The non-empty sticky timestamps of a row.
sticky(row) == {row[pair[2]] : pair \in {p \in Pairs : ~isna(row[p[2]])}}

\* C36: in every table on disk, each row has its first-seen time no later
\* than each of its non-empty sticky timestamps, and each of those no later
\* than its last-checked time; NOW grows by one from a run to the next.
C36_TimestampOrder ==
    program = "reddit_watch" =>
        \A table \in persisted : \A i \in Index(table) :
            /\ table[i].found_utc <= table[i].checked_utc
            /\ \A t \in sticky(table[i]) :
                  table[i].found_utc <= t /\ t <= table[i].checked_utc

\* A row found at 1 whose author was seen deleted in the second cycle, and
\* which the third cycle, that did not get it from the live source, has left
\* at checked_utc = 2.
C36_Witness ==
    /\ Written
    /\ now = 3
    /\ ~returned(1)
    /\ updated[1].found_utc = 1
    /\ updated[1].del_author_r_utc = 2
    /\ updated[1].checked_utc = 2

(***************************************************************************)
(* Properties of the shelf over the runs of reddit_query.py.               *)
(***************************************************************************)
\* The identifiers of the batch of the run.
batch_ids == {pushshift_results[n].id : n \in Index(pushshift_results)}

\* C37: no step of any run changes or drops a record of the shelf, so a
\* call of prefetch_reddit_posts returns, for an identifier stored before,
\* the record as it was first stored, without asking the live source for it
\* again; and the row construct_df makes for the identifier tells the
\* removal of that record.
C37_NeverRefreshed ==
    /\ [][program = "reddit_query" =>
             \A k \in DOMAIN shelf :
                 /\ k \in DOMAIN shelf'
                 /\ shelf'[k] = shelf[k]
                 /\ pc = "construct_df" => t3_id(k) \notin t3_ids']_vars
    /\ [](Built =>
             \A n \in Index(posts_df) :
                 (posts_df[n].id \in DOMAIN shelf /\ posts_df[n].author_r # "NA")
                     => posts_df[n].rem_text_r
                            = (shelf[posts_df[n].id].selftext = "[removed]"))

\* A run has built its rows, one of them for an identifier that was in the
\* shelf before the run, stored as removed, while the run asked the live
\* source for another identifier and stored its answer.
C37_Witness ==
    /\ Built
    /\ \E n, m \in Index(posts_df) :
          /\ posts_df[n].id \in DOMAIN shelf
          /\ t3_id(posts_df[n].id) \notin t3_ids
          /\ shelf[posts_df[n].id].selftext = "[removed]"
          /\ posts_df[n].rem_text_r
          /\ t3_id(posts_df[m].id) \in t3_ids
          /\ posts_df[m].id \in {sub.id : sub \in info}

(***************************************************************************)
(* Properties of what the archive and the loose files of a target hold.    *)
(***************************************************************************)
\* The file is one of the target of the subreddit: its table, the updated-
\* file, a stamped file or the archive.
of_target(name, subreddit) ==
    /\ name # INI_FN
    /\ removeprefix(name, "updated-")[2] = subreddit

\* The tables the files of the target hold, loose or as entries of its
\* archive.
held(fs, subreddit) ==
    {fs[name] : name \in {n \in DOMAIN fs : of_target(n, subreddit) /\ ~is_zip(n)}}
    \cup UNION {{fs[name].zip[i].content : i \in 1..Len(fs[name].zip)} :
                   name \in {n \in DOMAIN fs : of_target(n, subreddit) /\ is_zip(n)}}

\* The step of rotate_archive_fns that appends to the archive.
Appends == Main /\ pc = "archive" /\ pc' = "unlink"

\* A step of the program itself, not of someone else at the files.
OwnStep == Main /\ ~(pc = "rotate" /\ pc' = "rotate")

\* The tables of the timestamped entries of an archive, in order.
stamped_tables(archive) ==
    LET F[i \in 0..Len(archive.zip)] ==
            IF i = 0 THEN <<>>
            ELSE IF is_stamped(archive.zip[i].arcname)
            THEN Append(F[i - 1], archive.zip[i].content.table)
            ELSE F[i - 1]
    IN  F[Len(archive.zip)]

\* C38: the timestamped entry a rotation appends to the archive is the
\* table that was the latest one of the target before update_watch
\* reconciled it in the cycle; and so the archive and the loose files of a
\* target hold every table the target has had: no step of the program takes
\* one away from a target that has its archive, and the timestamped entries
\* are in the order the tables were made, the latest file after them.
C38_ArchivedSnapshots ==
    /\ [][Appends =>
             LET zip == files'[zipped_fn(updated_fn)].zip
             IN  zip[Len(zip)] = Entry(stamped_fn(updated_fn, now), previous_latest)]_vars
    /\ [][OwnStep =>
             \A subreddit \in Subreddits :
                 exists(files, zipped_fn(watch_fn(subreddit)))
                     => held(files, subreddit) \subseteq held(files', subreddit)]_vars
    /\ []((Rotated /\ exists(files, zipped_fn(updated_fn))) =>
             LET tables == Append(stamped_tables(files[zipped_fn(updated_fn)]),
                                  files[watched_fn].table)
             IN  \A i, j \in 1..Len(tables) :
                     i < j => is_prefix(tables[i], tables[j]) /\ tables[i] # tables[j])

====
